---- MODULE Spec2Model ----
(***************************************************************************)
(* A model of yesqlr's parser (src/src/lib.rs): parse_line, the line       *)
(* classifier, and parse, the aggregation loop followed by the validation  *)
(* loop over the HashMap of queries.                                       *)
(*                                                                         *)
(* A string is a sequence of characters; a character is a one-element      *)
(* TLA+ string, except the characters named below.  A number read from a   *)
(* placeholder is kept as its decimal digits, so that a value beyond       *)
(* usize::MAX can be told from one that fits.                              *)
(***************************************************************************)
EXTENDS Integers, Sequences, FiniteSets, TLC

VARIABLES
    input,      \* per call: the items BufReader::lines() will yield
    i,          \* per call: the number of items the for loop has consumed
    name,       \* per call: the local `name` of parse
    queries,    \* per call: the local `queries` of parse
    visited,    \* per call: the keys the validation loop has taken, in order
    ret,        \* per call: what parse returned, or that it is still running
    path,       \* per call: the path parse_file was called with, if it was
    def,        \* the fields of the struct ScanQueries is derived for
    scan        \* the call of the derived try_from: its locals and its result

vars == <<input, i, name, queries, visited, ret, path, def, scan>>

\* The calls of parse the model follows.
Calls == {1, 2}

(***************************************************************************)
(* Characters                                                              *)
(***************************************************************************)

\* U+0663 ARABIC-INDIC DIGIT THREE: a decimal digit (Nd) that is not ASCII.
ArabicThree == "U+0663"

AsciiDigits == {"0", "1", "2", "3", "4", "5", "6", "7", "8", "9"}

Letters ==
    {"a", "b", "c", "d", "e", "f", "g", "h", "i", "j", "k", "l", "m",
     "n", "o", "p", "q", "r", "s", "t", "u", "v", "w", "x", "y", "z",
     "A", "B", "C", "D", "E", "F", "G", "H", "I", "J", "K", "L", "M",
     "N", "O", "P", "Q", "R", "S", "T", "U", "V", "W", "X", "Y", "Z"}

\* char::is_whitespace, which str::trim uses, and the regex class \s.
IsSpace(c) == c \in {" ", "\t"}

\* The regex class \d: Unicode is on by default, so every Nd character.
IsDigit(c) == c \in AsciiDigits \cup {ArabicThree}

\* The regex class \w.
IsWord(c) == c \in Letters \cup {"_"} \/ IsDigit(c)

(***************************************************************************)
(* Strings                                                                 *)
(***************************************************************************)

\* The first position >= p of s that holds no character of the class, or
\* Len(s) + 1: where a greedy class* started at p stops.
RECURSIVE SkipSpace(_, _)
SkipSpace(s, p) ==
    IF p <= Len(s) /\ IsSpace(s[p]) THEN SkipSpace(s, p + 1) ELSE p

RECURSIVE SkipWord(_, _)
SkipWord(s, p) ==
    IF p <= Len(s) /\ IsWord(s[p]) THEN SkipWord(s, p + 1) ELSE p

RECURSIVE SkipDigits(_, _)
SkipDigits(s, p) ==
    IF p <= Len(s) /\ IsDigit(s[p]) THEN SkipDigits(s, p + 1) ELSE p

\* The last position <= p of s that holds no whitespace, or 0.
RECURSIVE BackSpace(_, _)
BackSpace(s, p) ==
    IF p >= 1 /\ IsSpace(s[p]) THEN BackSpace(s, p - 1) ELSE p

\* str::trim
Trim(s) == SubSeq(s, SkipSpace(s, 1), BackSpace(s, Len(s)))

\* str::starts_with
StartsWith(s, prefix) ==
    /\ Len(prefix) <= Len(s)
    /\ SubSeq(s, 1, Len(prefix)) = prefix

Dashes == <<"-", "-">>

TAG_NAME == <<"n", "a", "m", "e">>

TAG_END == <<"e", "n", "d">>

\* The literal of line.starts_with("-- end").
EndPrefix == Dashes \o <<" ">> \o TAG_END

NoMatch == [matched |-> FALSE, tag |-> <<>>, value |-> <<>>]

\* ReTag were the last group of the pattern (.*): a tag may have no value.
ReTagEmptyValue(s) ==
    LET p0 == SkipSpace(s, 1)
        p1 == SkipSpace(s, p0 + 2)
        p2 == SkipWord(s, p1)
        p3 == SkipSpace(s, p2)
        p4 == SkipSpace(s, p3 + 1)
    IN  IF /\ p0 + 1 <= Len(s)
           /\ SubSeq(s, p0, p0 + 1) = Dashes
           /\ p2 > p1
           /\ p3 <= Len(s)
           /\ s[p3] = ":"
        THEN [matched |-> TRUE,
              tag |-> SubSeq(s, p1, p2 - 1),
              value |-> SubSeq(s, p4, Len(s))]
        ELSE NoMatch

\* ReTag were the first \s* of the pattern \s+.
ReTagNeedsSpace(s) ==
    LET p0 == SkipSpace(s, 1)
        p1 == SkipSpace(s, p0 + 2)
        p2 == SkipWord(s, p1)
        p3 == SkipSpace(s, p2)
        p4 == SkipSpace(s, p3 + 1)
    IN  IF /\ p0 + 1 <= Len(s)
           /\ SubSeq(s, p0, p0 + 1) = Dashes
           /\ p1 > p0 + 2
           /\ p2 > p1
           /\ p3 <= Len(s)
           /\ s[p3] = ":"
           /\ p3 < Len(s)
        THEN [matched |-> TRUE,
              tag |-> SubSeq(s, p1, p2 - 1),
              value |-> IF p4 <= Len(s) THEN SubSeq(s, p4, Len(s))
                        ELSE SubSeq(s, Len(s), Len(s))]
        ELSE NoMatch

\* RE_TAG.captures(s) for ^\s*--\s*(\w+)\s*:\s*(.+): every quantifier is
\* greedy, and the only backtracking that can turn a failure into a match is
\* the last \s* giving its last character to (.+).
ReTag(s) ==
    LET p0 == SkipSpace(s, 1)
        p1 == SkipSpace(s, p0 + 2)
        p2 == SkipWord(s, p1)
        p3 == SkipSpace(s, p2)
        p4 == SkipSpace(s, p3 + 1)
    IN  IF /\ p0 + 1 <= Len(s)
           /\ SubSeq(s, p0, p0 + 1) = Dashes
           /\ p2 > p1
           /\ p3 <= Len(s)
           /\ s[p3] = ":"
           /\ p3 < Len(s)
        THEN [matched |-> TRUE,
              tag |-> SubSeq(s, p1, p2 - 1),
              value |-> IF p4 <= Len(s) THEN SubSeq(s, p4, Len(s))
                        ELSE SubSeq(s, Len(s), Len(s))]
        ELSE NoMatch

\* RE_COMMENT.captures(s) for ^\s*--\s*(.*)
ReComment(s) ==
    LET p0 == SkipSpace(s, 1)
    IN  IF p0 + 1 <= Len(s) /\ SubSeq(s, p0, p0 + 1) = Dashes
        THEN [matched |-> TRUE, tag |-> <<>>,
              value |-> SubSeq(s, SkipSpace(s, p0 + 2), Len(s))]
        ELSE NoMatch

\* parse_line trying the tag pattern before the end marker.
parse_lineTagFirst(raw) ==
    LET line == Trim(raw)
    IN  IF line = <<>>
        THEN [line_type |-> "Blank", tag |-> <<>>, value |-> <<>>]
        ELSE IF ReTag(line).matched
        THEN [line_type |-> "Tag", tag |-> ReTag(line).tag,
              value |-> ReTag(line).value]
        ELSE IF StartsWith(line, EndPrefix)
        THEN [line_type |-> "EndTag", tag |-> TAG_END, value |-> <<>>]
        ELSE IF ReComment(line).matched
        THEN [line_type |-> "Comment", tag |-> <<>>,
              value |-> ReComment(line).value]
        ELSE [line_type |-> "Query", tag |-> <<>>, value |-> line]

\* parse_line trying the comment pattern before the tag pattern.
parse_lineCommentFirst(raw) ==
    LET line == Trim(raw)
    IN  IF line = <<>>
        THEN [line_type |-> "Blank", tag |-> <<>>, value |-> <<>>]
        ELSE IF StartsWith(line, EndPrefix)
        THEN [line_type |-> "EndTag", tag |-> TAG_END, value |-> <<>>]
        ELSE IF ReComment(line).matched
        THEN [line_type |-> "Comment", tag |-> <<>>,
              value |-> ReComment(line).value]
        ELSE IF ReTag(line).matched
        THEN [line_type |-> "Tag", tag |-> ReTag(line).tag,
              value |-> ReTag(line).value]
        ELSE [line_type |-> "Query", tag |-> <<>>, value |-> line]

\* parse_line taking the end marker by the pattern --\s*end instead of the
\* literal prefix.
parse_lineLooseEnd(raw) ==
    LET line == Trim(raw)
        p == SkipSpace(line, 3)
    IN  IF line = <<>>
        THEN [line_type |-> "Blank", tag |-> <<>>, value |-> <<>>]
        ELSE IF /\ StartsWith(line, Dashes)
                /\ StartsWith(SubSeq(line, p, Len(line)), TAG_END)
        THEN [line_type |-> "EndTag", tag |-> TAG_END, value |-> <<>>]
        ELSE IF ReTag(line).matched
        THEN [line_type |-> "Tag", tag |-> ReTag(line).tag,
              value |-> ReTag(line).value]
        ELSE IF ReComment(line).matched
        THEN [line_type |-> "Comment", tag |-> <<>>,
              value |-> ReComment(line).value]
        ELSE [line_type |-> "Query", tag |-> <<>>, value |-> line]

\* fn parse_line(line: &str) -> ParsedLine
parse_line(raw) ==
    LET line == Trim(raw)
    IN  IF line = <<>>
        THEN [line_type |-> "Blank", tag |-> <<>>, value |-> <<>>]
        ELSE IF StartsWith(line, EndPrefix)
        THEN [line_type |-> "EndTag", tag |-> TAG_END, value |-> <<>>]
        ELSE IF ReTag(line).matched
        THEN [line_type |-> "Tag", tag |-> ReTag(line).tag,
              value |-> ReTag(line).value]
        ELSE IF ReComment(line).matched
        THEN [line_type |-> "Comment", tag |-> <<>>,
              value |-> ReComment(line).value]
        ELSE [line_type |-> "Query", tag |-> <<>>, value |-> line]

(***************************************************************************)
(* Placeholders                                                            *)
(***************************************************************************)

DigitChars == <<"0", "1", "2", "3", "4", "5", "6", "7", "8", "9">>

DigitValue(c) == (CHOOSE k \in 1..10 : DigitChars[k] = c) - 1

\* The decimal digits of a usize, as format! and parse agree on them.
RECURSIVE ToDigits(_)
ToDigits(n) ==
    IF n < 10 THEN <<DigitChars[n + 1]>>
    ELSE ToDigits(n \div 10) \o <<DigitChars[(n % 10) + 1]>>

\* usize::MAX of a 64-bit target, 2^64 - 1.
UsizeMaxDigits ==
    <<"1", "8", "4", "4", "6", "7", "4", "4", "0", "7",
      "3", "7", "0", "9", "5", "5", "1", "6", "1", "5">>

RECURSIVE StripZeros(_)
StripZeros(ds) ==
    IF Len(ds) > 1 /\ ds[1] = "0" THEN StripZeros(Tail(ds)) ELSE ds

\* a > b for two digit strings of the same length
RECURSIVE DigitsGreater(_, _)
DigitsGreater(a, b) ==
    IF a = <<>> THEN FALSE
    ELSE IF DigitValue(a[1]) # DigitValue(b[1])
    THEN DigitValue(a[1]) > DigitValue(b[1])
    ELSE DigitsGreater(Tail(a), Tail(b))

\* str::parse::<usize> on a match of \d+: Err(InvalidDigit) on a digit that
\* is not ASCII, Err(PosOverflow) beyond usize::MAX, else the number.
ParseUsize(ds) ==
    LET n == StripZeros(ds)
    IN  IF \E k \in 1..Len(ds) : ds[k] \notin AsciiDigits
        THEN [ok |-> FALSE, digits |-> <<>>]
        ELSE IF \/ Len(n) > Len(UsizeMaxDigits)
                \/ Len(n) = Len(UsizeMaxDigits) /\ DigitsGreater(n, UsizeMaxDigits)
        THEN [ok |-> FALSE, digits |-> <<>>]
        ELSE [ok |-> TRUE, digits |-> n]

\* RE_PLACEHOLDER.find_iter(text), each match without its dollar sign: the
\* leftmost matches of \$\d+, none overlapping, in order.
RECURSIVE FindPlaceholders(_, _)
FindPlaceholders(text, p) ==
    IF p > Len(text) THEN <<>>
    ELSE LET q == SkipDigits(text, p + 1)
         IN  IF text[p] = "$" /\ q > p + 1
             THEN <<SubSeq(text, p + 1, q - 1)>> \o FindPlaceholders(text, q)
             ELSE FindPlaceholders(text, p + 1)

(***************************************************************************)
(* The values parse works with                                             *)
(***************************************************************************)

\* Query { query: String::new(), tags: HashMap::new() }
EmptyQueryRecord == [query |-> <<>>, tags |-> <<>>]

\* Queries::new()
NoQueries == <<>>

Running == [kind |-> "Running"]

NotCalled == [kind |-> "NotCalled"]

\* parse_file was called and has not run File::open yet.
Opening == [kind |-> "Opening"]

\* The call is one of parse on a reader: there is no path.
NoPath == <<>>

\* The unwrap of line 251 on an Err: the thread panics, parse returns nothing.
Panicked == [kind |-> "Panic"]

Ok(qs) == [kind |-> "Ok", queries |-> qs]

\* Err(ParseError::<err>(message)): the message is kept as the values that
\* format! puts into it.
Err(e, lineNo, qname, tag, value, expected, found) ==
    [kind |-> "Err", err |-> e, line |-> lineNo, name |-> qname, tag |-> tag,
     value |-> value, expected |-> expected, found |-> found]

IOError(lineNo) == Err("IOError", lineNo, <<>>, <<>>, <<>>, 0, <<>>)

\* The IOError of parse_file: "Error reading file '{path}': {e}".
FileIOError(p) == Err("IOError", 0, <<>>, <<>>, p, 0, <<>>)

MissingNameTag(lineNo, value) ==
    Err("MissingNameTag", lineNo, <<>>, <<>>, value, 0, <<>>)

DuplicateName(qname) == Err("DuplicateTag", 0, qname, <<>>, <<>>, 0, <<>>)

DuplicateTag(tag, qname) == Err("DuplicateTag", 0, qname, tag, <<>>, 0, <<>>)

InvalidTagOrder(tag, lineNo) ==
    Err("InvalidTagOrder", lineNo, <<>>, tag, <<>>, 0, <<>>)

EmptyQuery(qname) == Err("EmptyQuery", 0, qname, <<>>, <<>>, 0, <<>>)

UnmatchedPlaceholders(qname, expected, found) ==
    Err("UnmatchedPlaceholders", 0, qname, <<>>, <<>>, expected, found)

\* HashMap::insert
Insert(map, k, v) == (k :> v) @@ map

(***************************************************************************)
(* parse: the aggregation loop                                             *)
(***************************************************************************)
\* ActiveName were `name` a static that the calls share.
ActiveNameShared(r) == name[1]

\* The local `name` the loop body of a call reads.
ActiveName(r) == name[r]
\* PushFragment with the space pushed even when q.query is empty.
PushFragmentAlwaysSpace(query, value) == query \o <<" ">> \o value

\* q.query after the LineType::Query arm: one space first unless q.query is
\* empty, then the line's value.
PushFragment(query, value) ==
    IF query # <<>> THEN query \o <<" ">> \o value ELSE value
\* QueryArm with `continue` where it returns MissingNameTag.
QueryArmSkipStray(nm, qs, lineNo, pl) ==
    IF nm = <<>>
    THEN [name |-> nm, queries |-> qs, ret |-> Running]
    ELSE LET q == IF nm \in DOMAIN qs THEN qs[nm] ELSE EmptyQueryRecord
         IN  [name |-> nm,
              queries |-> Insert(qs, nm,
                                 [q EXCEPT !.query = PushFragment(q.query, pl.value)]),
              ret |-> Running]

\* QueryArm reporting i, the index from 0, where it reports i + 1.
QueryArmZeroBased(nm, qs, lineNo, pl) ==
    IF nm = <<>>
    THEN [name |-> nm, queries |-> qs,
          ret |-> MissingNameTag(lineNo - 1, pl.value)]
    ELSE LET q == IF nm \in DOMAIN qs THEN qs[nm] ELSE EmptyQueryRecord
         IN  [name |-> nm,
              queries |-> Insert(qs, nm,
                                 [q EXCEPT !.query = PushFragment(q.query, pl.value)]),
              ret |-> Running]

\* The LineType::Query arm.
QueryArm(nm, qs, lineNo, pl) ==
    IF nm = <<>>
    THEN [name |-> nm, queries |-> qs,
          ret |-> MissingNameTag(lineNo, pl.value)]
    ELSE LET q == IF nm \in DOMAIN qs THEN qs[nm] ELSE EmptyQueryRecord
         IN  [name |-> nm,
              queries |-> Insert(qs, nm,
                                 [q EXCEPT !.query = PushFragment(q.query, pl.value)]),
              ret |-> Running]
\* NameTagArm without the contains_key check: the insert replaces the entry.
NameTagArmOverwrite(nm, qs, lineNo, pl) ==
    [name |-> pl.value,
     queries |-> Insert(qs, pl.value, EmptyQueryRecord),
     ret |-> Running]
\* NameTagArm keeping the `name` tag among the tags of the new entry.
NameTagArmStoresName(nm, qs, lineNo, pl) ==
    IF pl.value \in DOMAIN qs
    THEN [name |-> pl.value, queries |-> qs, ret |-> DuplicateName(pl.value)]
    ELSE [name |-> pl.value,
          queries |-> Insert(qs, pl.value,
                             [query |-> <<>>, tags |-> (pl.tag :> pl.value)]),
          ret |-> Running]

\* The LineType::Tag arm for the tag `name`.
NameTagArm(nm, qs, lineNo, pl) ==
    IF pl.value \in DOMAIN qs
    THEN [name |-> pl.value, queries |-> qs, ret |-> DuplicateName(pl.value)]
    ELSE [name |-> pl.value,
          queries |-> Insert(qs, pl.value, EmptyQueryRecord),
          ret |-> Running]
\* OtherTagArm returning MissingNameTag where no entry has the name.
OtherTagArmMissingName(nm, qs, lineNo, pl) ==
    IF nm \notin DOMAIN qs
    THEN [name |-> nm, queries |-> qs, ret |-> MissingNameTag(lineNo, pl.value)]
    ELSE IF pl.tag \in DOMAIN qs[nm].tags
    THEN [name |-> nm, queries |-> qs, ret |-> DuplicateTag(pl.tag, nm)]
    ELSE [name |-> nm,
          queries |-> [qs EXCEPT ![nm].tags = Insert(@, pl.tag, pl.value)],
          ret |-> Running]
\* OtherTagArm without the check for a tag the entry already has: the
\* insert replaces its value.
OtherTagArmOverwrite(nm, qs, lineNo, pl) ==
    IF nm \notin DOMAIN qs
    THEN [name |-> nm, queries |-> qs, ret |-> InvalidTagOrder(pl.tag, lineNo)]
    ELSE [name |-> nm,
          queries |-> [qs EXCEPT ![nm].tags = Insert(@, pl.tag, pl.value)],
          ret |-> Running]

\* The LineType::Tag arm for any other tag.
OtherTagArm(nm, qs, lineNo, pl) ==
    IF nm \notin DOMAIN qs
    THEN [name |-> nm, queries |-> qs, ret |-> InvalidTagOrder(pl.tag, lineNo)]
    ELSE IF pl.tag \in DOMAIN qs[nm].tags
    THEN [name |-> nm, queries |-> qs, ret |-> DuplicateTag(pl.tag, nm)]
    ELSE [name |-> nm,
          queries |-> [qs EXCEPT ![nm].tags = Insert(@, pl.tag, pl.value)],
          ret |-> Running]
\* EndTagArm checking the block it closes for text, before the lines after it.
EndTagArmChecksEmpty(nm, qs) ==
    IF nm \in DOMAIN qs /\ qs[nm].query = <<>>
    THEN [name |-> <<>>, queries |-> qs, ret |-> EmptyQuery(nm)]
    ELSE [name |-> <<>>, queries |-> qs, ret |-> Running]
\* EndTagArm without name.clear().
EndTagArmKeepName(nm, qs) == [name |-> nm, queries |-> qs, ret |-> Running]

\* The LineType::EndTag arm.
EndTagArm(nm, qs) == [name |-> <<>>, queries |-> qs, ret |-> Running]
\* LoopBody with a blank or comment line closing the block that is open.
LoopBodyCommentCloses(nm, qs, lineNo, item) ==
    IF ~item.ok
    THEN [name |-> nm, queries |-> qs, ret |-> IOError(lineNo)]
    ELSE LET pl == parse_line(item.s)
         IN  CASE pl.line_type \in {"Blank", "Comment"} ->
                    [name |-> <<>>, queries |-> qs, ret |-> Running]
               [] pl.line_type = "Query" -> QueryArm(nm, qs, lineNo, pl)
               [] pl.line_type = "Tag" /\ pl.tag = TAG_NAME ->
                    NameTagArm(nm, qs, lineNo, pl)
               [] pl.line_type = "Tag" /\ pl.tag # TAG_NAME ->
                    OtherTagArm(nm, qs, lineNo, pl)
               [] pl.line_type = "EndTag" -> EndTagArm(nm, qs)

\* One turn of the for loop of parse on the item numbered lineNo (i + 1):
\* the locals after it, and what parse returned if it returned.
LoopBody(nm, qs, lineNo, item) ==
    IF ~item.ok
    THEN [name |-> nm, queries |-> qs, ret |-> IOError(lineNo)]
    ELSE LET pl == parse_line(item.s)
         IN  CASE pl.line_type \in {"Blank", "Comment"} ->
                    [name |-> nm, queries |-> qs, ret |-> Running]
               [] pl.line_type = "Query" -> QueryArm(nm, qs, lineNo, pl)
               [] pl.line_type = "Tag" /\ pl.tag = TAG_NAME ->
                    NameTagArm(nm, qs, lineNo, pl)
               [] pl.line_type = "Tag" /\ pl.tag # TAG_NAME ->
                    OtherTagArm(nm, qs, lineNo, pl)
               [] pl.line_type = "EndTag" -> EndTagArm(nm, qs)

\* The for loop takes the next item of the reader.
ProcessLine(r) ==
    /\ ret[r].kind = "Running"
    /\ i[r] < Len(input[r])
    /\ LET after == LoopBody(ActiveName(r), queries[r], i[r] + 1,
                             input[r][i[r] + 1])
       IN  /\ name' = [name EXCEPT ![r] = after.name]
           /\ queries' = [queries EXCEPT ![r] = after.queries]
           /\ ret' = [ret EXCEPT ![r] = after.ret]
    /\ i' = [i EXCEPT ![r] = @ + 1]
    /\ UNCHANGED <<input, visited, path, def, scan>>

(***************************************************************************)
(* parse: the validation loop                                              *)
(***************************************************************************)

\* placeholders of line 250: None when an unwrap panicked.
Placeholders(text) ==
    LET found == FindPlaceholders(text, 1)
    IN  IF \E k \in 1..Len(found) : ~ParseUsize(found[k]).ok
        THEN [ok |-> FALSE, nums |-> <<>>]
        ELSE [ok |-> TRUE,
              nums |-> [k \in 1..Len(found) |-> ParseUsize(found[k]).digits]]

\* FirstMismatch taking the last index whose number is not the index.
FirstMismatchIsLast(nums) ==
    IF \E k \in 1..Len(nums) : nums[k] # ToDigits(k)
    THEN CHOOSE k \in 1..Len(nums) :
            /\ nums[k] # ToDigits(k)
            /\ \A j \in (k + 1)..Len(nums) : nums[j] = ToDigits(j)
    ELSE 0

\* The first index of nums whose number is not the index, or 0.
FirstMismatch(nums) ==
    IF \E k \in 1..Len(nums) : nums[k] # ToDigits(k)
    THEN CHOOSE k \in 1..Len(nums) :
            /\ nums[k] # ToDigits(k)
            /\ \A j \in 1..(k - 1) : nums[j] = ToDigits(j)
    ELSE 0
\* ValidateQuery without the is_empty check.
ValidateQueryNoEmptyCheck(qname, query) ==
    LET ph == Placeholders(query.query)
        k == FirstMismatch(ph.nums)
    IN  IF ~ph.ok THEN Panicked
        ELSE IF k # 0
        THEN UnmatchedPlaceholders(qname, k, ph.nums[k])
        ELSE Running

\* The body of the validation loop for one entry: Running when the entry
\* passes and the loop goes on.
ValidateQuery(qname, query) ==
    IF query.query = <<>> THEN EmptyQuery(qname)
    ELSE LET ph == Placeholders(query.query)
             k == FirstMismatch(ph.nums)
         IN  IF ~ph.ok THEN Panicked
             ELSE IF k # 0
             THEN UnmatchedPlaceholders(qname, k, ph.nums[k])
             ELSE Running

\* The keys the iterator of the HashMap may yield next: any key it has not
\* yielded, the order of a HashMap being arbitrary.
NextKeys(r) == DOMAIN queries[r] \ {visited[r][k] : k \in 1..Len(visited[r])}

\* The validation loop takes the next entry.
ValidateEntry(r) ==
    /\ ret[r].kind = "Running"
    /\ i[r] = Len(input[r])
    /\ \E qname \in NextKeys(r) :
          /\ visited' = [visited EXCEPT ![r] = Append(@, qname)]
          /\ ret' = [ret EXCEPT ![r] = ValidateQuery(qname, queries[r][qname])]
    /\ UNCHANGED <<input, i, name, queries, path, def, scan>>

\* ReturnOk were an input that ends inside a block an error.
ReturnOkNeedsEnd(r) ==
    /\ ret[r].kind = "Running"
    /\ i[r] = Len(input[r])
    /\ NextKeys(r) = {}
    /\ ret' = [ret EXCEPT ![r] = IF name[r] = <<>> THEN Ok(queries[r])
                                 ELSE MissingNameTag(i[r], <<>>)]
    /\ UNCHANGED <<input, i, name, queries, visited, path, def, scan>>

\* Ok(queries)
ReturnOk(r) ==
    /\ ret[r].kind = "Running"
    /\ i[r] = Len(input[r])
    /\ NextKeys(r) = {}
    /\ ret' = [ret EXCEPT ![r] = Ok(queries[r])]
    /\ UNCHANGED <<input, i, name, queries, visited, path, def, scan>>

Next == \E r \in Calls : ProcessLine(r) \/ ValidateEntry(r) \/ ReturnOk(r)

(***************************************************************************)
(* parse_file                                                              *)
(***************************************************************************)

\* "test.sql", the path of the doc example
TestSql == <<"t", "e", "s", "t", ".", "s", "q", "l">>

\* "missing.sql", the path of test_parse_nonexistent_file
MissingSql == <<"m", "i", "s", "s", "i", "n", "g", ".", "s", "q", "l">>

\* The paths File::open succeeds on.
Existing == {TestSql}
\* OpenFile with the `?` dropped: parse runs on a reader that yields nothing.
OpenFileIgnoresError(r) ==
    /\ ret[r].kind = "Opening"
    /\ ret' = [ret EXCEPT ![r] = Running]
    /\ UNCHANGED <<input, i, name, queries, visited, path, def, scan>>

\* File::open(&path).map_err(..)?: parse_file returns IOError with the path,
\* or goes on to parse(file).
OpenFile(r) ==
    /\ ret[r].kind = "Opening"
    /\ ret' = [ret EXCEPT ![r] = IF path[r] \in Existing THEN Running
                                 ELSE FileIOError(path[r])]
    /\ UNCHANGED <<input, i, name, queries, visited, path, def, scan>>

\* The steps of parse_file: File::open, then those of parse.
NextFile == Next \/ \E r \in Calls : OpenFile(r)

(***************************************************************************)
(* The derive macro ScanQueries (src/yesqlr_macros/src/lib.rs) and the     *)
(* try_from it generates.  A field of the struct is its identifier, its    *)
(* attributes in order and its type; a type is the FromStr it has.         *)
(***************************************************************************)

\* #[<path> = "<value>"] on a field: Meta::NameValue with a Lit::Str.
Attr(p, value) == [path |-> p, meta |-> "NameValue", lit |-> "Str", value |-> value]

Field(ident, attrs, ty) == [ident |-> ident, attrs |-> attrs, ty |-> ty]

\* `key` after the loop over field.attrs: the identifier, unless an attribute
\* `key` with a string value replaces it (the last one stands).
KeyOf(field) ==
    LET S == {a \in 1..Len(field.attrs) :
                 /\ field.attrs[a].path = "key"
                 /\ field.attrs[a].meta = "NameValue"
                 /\ field.attrs[a].lit = "Str"}
    IN  IF S = {} THEN field.ident
        ELSE field.attrs[CHOOSE a \in S : \A b \in S : b <= a].value

\* `map` of generate_try_from: (field_name, key, &field.ty) of every field.
GenerateMap(fields) ==
    [k \in 1..Len(fields) |->
        [field |-> fields[k].ident, key |-> KeyOf(fields[k]), ty |-> fields[k].ty]]

\* Default::default() of a field type.
Default(ty) == IF ty = "usize" THEN <<"0">> ELSE <<>>

\* convert_query::<T>(value): value.parse::<T>().  String takes any text;
\* usize takes ASCII digits after an optional plus sign, up to usize::MAX.
convert_query(ty, value) ==
    IF ty = "usize"
    THEN LET ds == IF value # <<>> /\ value[1] = "+" THEN Tail(value) ELSE value
         IN  IF ds = <<>> THEN [ok |-> FALSE, digits |-> <<>>]
             ELSE ParseUsize(ds)
    ELSE [ok |-> TRUE, digits |-> value]

\* HashMap::remove
Remove(map, k) == [x \in DOMAIN map \ {k} |-> map[x]]

\* try_from has not been called.
NoScan == [queries |-> <<>>, arg |-> <<>>, k |-> 0, self |-> <<>>,
           ret |-> NotCalled]

\* Err(format!("Failed to convert key '{}': {}", key, e))
ConvertError(key, value) ==
    [kind |-> "Err", err |-> "Convert", key |-> key, value |-> value]

\* Ok(Self { .. })
OkSelf(fields) == [kind |-> "Ok", self |-> fields]
\* ExtractField were a key the table lacks an error.
ExtractFieldMissingIsError(m, qs) ==
    IF m.key \in DOMAIN qs
    THEN LET c == convert_query(m.ty, qs[m.key].query)
         IN  [queries |-> Remove(qs, m.key),
              value |-> c.digits,
              ret |-> IF c.ok THEN Running
                      ELSE ConvertError(m.key, qs[m.key].query)]
    ELSE [queries |-> qs, value |-> Default(m.ty),
          ret |-> ConvertError(m.key, <<>>)]

\* One field initializer of the generated try_from: the table after it, the
\* value of the field, and what try_from returned if the `?` returned.
ExtractField(m, qs) ==
    IF m.key \in DOMAIN qs
    THEN LET c == convert_query(m.ty, qs[m.key].query)
         IN  [queries |-> Remove(qs, m.key),
              value |-> c.digits,
              ret |-> IF c.ok THEN Running
                      ELSE ConvertError(m.key, qs[m.key].query)]
    ELSE [queries |-> qs, value |-> Default(m.ty), ret |-> Running]

\* try_from evaluates the initializer of its next field.
ScanField ==
    /\ scan.ret.kind = "Running"
    /\ scan.k < Len(def)
    /\ LET m == GenerateMap(def)[scan.k + 1]
           after == ExtractField(m, scan.queries)
       IN  scan' = [scan EXCEPT
                       !.queries = after.queries,
                       !.k = @ + 1,
                       !.self = IF after.ret.kind = "Running"
                                THEN Insert(@, m.field, after.value) ELSE @,
                       !.ret = after.ret]
    /\ UNCHANGED <<input, i, name, queries, visited, ret, path, def>>

\* Ok(Self { .. })
ReturnSelf ==
    /\ scan.ret.kind = "Running"
    /\ scan.k = Len(def)
    /\ scan' = [scan EXCEPT !.ret = OkSelf(scan.self)]
    /\ UNCHANGED <<input, i, name, queries, visited, ret, path, def>>

\* The steps of the generated try_from.
NextScan == ScanField \/ ReturnSelf

\* Q::try_from(table) is called for the struct of the given fields; no call
\* of parse is followed.
StartScan(fields, table) ==
    /\ input = [r \in Calls |-> <<>>]
    /\ i = [r \in Calls |-> 0]
    /\ name = [r \in Calls |-> <<>>]
    /\ queries = [r \in Calls |-> NoQueries]
    /\ visited = [r \in Calls |-> <<>>]
    /\ ret = [r \in Calls |-> NotCalled]
    /\ path = [r \in Calls |-> NoPath]
    /\ def = fields
    /\ scan = [queries |-> table, arg |-> table, k |-> 0, self |-> <<>>,
               ret |-> Running]

(***************************************************************************)
(* Inputs                                                                  *)
(***************************************************************************)

\* Ok(line) and Err(e), the items of BufReader::lines().
Line(s) == [ok |-> TRUE, s |-> s]

ReadError == [ok |-> FALSE, s |-> <<>>]

\* Every input of at most n items over a pool of items.
Inputs(pool, n) == UNION {[1..k -> pool] : k \in 0..n}

\* parse(a) is called and, if `both`, parse(b) too: each call is at the top
\* of its for loop.
Start(a, b, both) ==
    /\ input = (1 :> a) @@ (2 :> b)
    /\ i = [r \in Calls |-> 0]
    /\ name = [r \in Calls |-> <<>>]
    /\ queries = [r \in Calls |-> NoQueries]
    /\ visited = [r \in Calls |-> <<>>]
    /\ ret = (1 :> Running) @@ (2 :> IF both THEN Running ELSE NotCalled)
    /\ path = [r \in Calls |-> NoPath]
    /\ def = <<>>
    /\ scan = NoScan

\* parse_file(p) is called, the file of p (if there is one) yielding the
\* items of content: the call is before its File::open.
StartFile(p, content) ==
    /\ input = (1 :> content) @@ (2 :> <<>>)
    /\ i = [r \in Calls |-> 0]
    /\ name = [r \in Calls |-> <<>>]
    /\ queries = [r \in Calls |-> NoQueries]
    /\ visited = [r \in Calls |-> <<>>]
    /\ ret = (1 :> Opening) @@ (2 :> NotCalled)
    /\ path = (1 :> p) @@ (2 :> NoPath)
    /\ def = <<>>
    /\ scan = NoScan

Sp == <<" ">>

\* "-- name: a"
LineNameA == Line(Dashes \o Sp \o TAG_NAME \o <<":", " ", "a">>)

\* " -- name: b "
LineNameB == Line(Sp \o Dashes \o Sp \o TAG_NAME \o <<":", " ", "b">> \o Sp)

\* "-- t: 1"
LineTagT == Line(Dashes \o <<" ", "t", ":", " ", "1">>)

\* "-- end;"
LineEnd == Line(EndPrefix \o <<";">>)

\* "-- t: 2"
LineTagT2 == Line(Dashes \o <<" ", "t", ":", " ", "2">>)

\* " x"
LineX == Line(<<" ", "x">>)

\* "y" and a tab
LineY == Line(<<"y", "\t">>)

\* "-- c"
LineComment == Line(Dashes \o <<" ", "c">>)

\* " "
LineBlank == Line(Sp)
\* "a=$1"
LineP1 == Line(<<"a", "=", "$", "1">>)

\* "$2"
LineP2 == Line(<<"$", "2">>)

\* "$18446744073709551616", usize::MAX + 1 on a 64-bit target
LineBig ==
    Line(<<"$", "1", "8", "4", "4", "6", "7", "4", "4", "0", "7",
           "3", "7", "0", "9", "5", "5", "1", "6", "1", "6">>)

\* The lines of the blocks' cases: name tags, fragments, end markers and the
\* lines that are skipped.
Pool ==
    {LineNameA, LineNameB, LineEnd, LineX, LineY, LineComment, LineBlank}

\* The longest input of Spec.
MaxLines == 4

Init == \E a \in Inputs(Pool, MaxLines) : Start(a, <<>>, FALSE)

Spec == Init /\ [][Next]_vars

\* The lines of the tags' cases, and a line the reader fails on.
PoolT ==
    {LineNameA, LineNameB, LineTagT, LineTagT2, LineEnd, LineX, ReadError}

\* The longest input of SpecT.
MaxLinesT == 4

InitT == \E a \in Inputs(PoolT, MaxLinesT) : Start(a, <<>>, FALSE)

SpecT == InitT /\ [][Next]_vars

\* The lines of the validation's cases.
PoolV == {LineNameA, LineNameB, LineEnd, LineP1, LineP2, LineBig}

\* The longest input of SpecV.
MaxLinesV == 4

InitV == \E a \in Inputs(PoolV, MaxLinesV) : Start(a, <<>>, FALSE)

SpecV == InitV /\ [][Next]_vars

\* The lines of two calls of parse on one input.
PoolDet == {LineNameA, LineNameB, LineTagT, LineX}

\* The longest input of SpecDet.
MaxLinesDet == 5

InitDet == \E a \in Inputs(PoolDet, MaxLinesDet) : Start(a, a, TRUE)

\* Two calls of parse on the same input, their steps interleaved.
SpecDet == InitDet /\ [][Next]_vars

(***************************************************************************)
(* What the claims speak of: the lines of an input by their kind, and the  *)
(* block that is open when a line is reached                               *)
(***************************************************************************)

LineKind(item) == IF item.ok THEN parse_line(item.s).line_type ELSE "ReadError"

IsFragment(item) == LineKind(item) = "Query"

IsNameTag(item) == LineKind(item) = "Tag" /\ parse_line(item.s).tag = TAG_NAME

IsOtherTag(item) == LineKind(item) = "Tag" /\ parse_line(item.s).tag # TAG_NAME

IsEndMarker(item) == LineKind(item) = "EndTag"

IsNoOp(item) == LineKind(item) \in {"Blank", "Comment"}

TagKey(item) == parse_line(item.s).tag

TagValue(item) == parse_line(item.s).value

Largest(S) == CHOOSE k \in S : \A j \in S : j <= k

Smallest(S) == CHOOSE k \in S : \A j \in S : k <= j

\* The name of the block open when line k of inp is reached, <<>> when none
\* is: the value of the last name tag before line k, unless an end marker
\* follows it.
ActiveAt(inp, k) ==
    LET S == {j \in 1..(k - 1) : IsNameTag(inp[j]) \/ IsEndMarker(inp[j])}
    IN  IF S = {} \/ IsEndMarker(inp[Largest(S)]) THEN <<>>
        ELSE TagValue(inp[Largest(S)])

\* The trimmed Fragment lines among the first k lines of inp that are reached
\* while block n is open, in source order.
RECURSIVE FragmentsOf(_, _, _)
FragmentsOf(inp, n, k) ==
    IF k = 0 THEN <<>>
    ELSE FragmentsOf(inp, n, k - 1) \o
         (IF IsFragment(inp[k]) /\ ActiveAt(inp, k) = n
          THEN <<Trim(inp[k].s)>> ELSE <<>>)

\* The strings of a sequence joined by single spaces.
RECURSIVE JoinSpace(_)
JoinSpace(ss) ==
    IF ss = <<>> THEN <<>>
    ELSE IF Len(ss) = 1 THEN ss[1]
    ELSE ss[1] \o <<" ">> \o JoinSpace(Tail(ss))

\* The call has returned (or panicked).
Finished(r) == ret[r].kind \in {"Ok", "Err", "Panic"}

\* This step is the turn of the for loop of call r on line i[r] + 1.
Turn(r) == i'[r] = i[r] + 1

(***************************************************************************)
(* C1  Join law: when parse succeeds, the text of every entry is the       *)
(* trimmed Fragment lines reached while its name was the active name, in   *)
(* source order, joined by exactly one space; nothing else is in it.       *)
(***************************************************************************)
JoinLaw ==
    \A r \in Calls :
        ret[r].kind = "Ok" =>
            \A n \in DOMAIN ret[r].queries :
                ret[r].queries[n].query =
                    JoinSpace(FragmentsOf(input[r], n, Len(input[r])))

\* parse succeeded on an entry of two fragments with a blank or comment line
\* between them.
JoinLawWitness ==
    /\ ret[1].kind = "Ok"
    /\ \E n \in DOMAIN ret[1].queries, k \in 1..Len(input[1]) :
          /\ Len(FragmentsOf(input[1], n, Len(input[1]))) = 2
          /\ Len(FragmentsOf(input[1], n, k)) = 1
          /\ IsNoOp(input[1][k])

(***************************************************************************)
(* C2  Duplicate name law.                                                 *)
(***************************************************************************)

\* The lines of inp that are a name tag with the value of an earlier name tag.
RepeatedNames(inp) ==
    {k \in 1..Len(inp) :
        /\ IsNameTag(inp[k])
        /\ \E j \in 1..(k - 1) :
              IsNameTag(inp[j]) /\ TagValue(inp[j]) = TagValue(inp[k])}

\* C2 as stated, for the inputs that are read without an I/O error: every
\* input with two name tags of the same value makes parse return
\* DuplicateTag.
DuplicateNameAlways ==
    \A r \in Calls :
        (/\ Finished(r)
         /\ RepeatedNames(input[r]) # {}
         /\ \A k \in 1..Len(input[r]) : input[r][k].ok)
        => ret[r].kind = "Err" /\ ret[r].err = "DuplicateTag"

\* C2 amended: an input with two name tags of the same value never parses;
\* parse returns DuplicateTag for that name at the second of them, the entry
\* of the first still holding the first block's fragments alone, unless an
\* earlier line has already made parse return its own error.
DuplicateNameLaw ==
    \A r \in Calls :
        Finished(r) /\ RepeatedNames(input[r]) # {} =>
            LET k == Smallest(RepeatedNames(input[r]))
                n == TagValue(input[r][k])
            IN  /\ ret[r].kind = "Err"
                /\ i[r] <= k
                /\ i[r] = k =>
                      /\ ret[r] = DuplicateName(n)
                      /\ queries[r][n].query =
                            JoinSpace(FragmentsOf(input[r], n, k - 1))

\* parse returned DuplicateTag at a second name tag whose first block has text.
DuplicateNameWitness ==
    /\ ret[1].kind = "Err"
    /\ ret[1].err = "DuplicateTag"
    /\ RepeatedNames(input[1]) # {}
    /\ i[1] = Smallest(RepeatedNames(input[1]))
    /\ queries[1][ret[1].name].query # <<>>

(***************************************************************************)
(* C3  A Fragment line reached while no block is open (at the start, or    *)
(* after an end marker with no name tag since) makes parse return          *)
(* MissingNameTag for that line, and is appended to no entry.              *)
(***************************************************************************)
StrayFragmentRejected ==
    [][\A r \in Calls :
          (/\ Turn(r)
           /\ IsFragment(input[r][i'[r]])
           /\ ActiveAt(input[r], i'[r]) = <<>>)
          => /\ ret'[r] = MissingNameTag(i'[r], Trim(input[r][i'[r]].s))
             /\ queries'[r] = queries[r]]_vars

\* A fragment right after the end marker of a block with text was rejected.
StrayFragmentWitness ==
    /\ i[1] >= 3
    /\ IsFragment(input[1][i[1]])
    /\ IsEndMarker(input[1][i[1] - 1])
    /\ ret[1].kind = "Err"
    /\ ret[1].err = "MissingNameTag"
    /\ \E n \in DOMAIN queries[1] : queries[1][n].query # <<>>

(***************************************************************************)
(* C4  Tag order law: a non-name tag line reached while no block is open   *)
(* (before any name tag, or after an end marker and before the next name   *)
(* tag) makes parse return InvalidTagOrder for that tag and line.          *)
(***************************************************************************)
TagOrderLaw ==
    [][\A r \in Calls :
          (/\ Turn(r)
           /\ IsOtherTag(input[r][i'[r]])
           /\ ActiveAt(input[r], i'[r]) = <<>>)
          => /\ ret'[r] = InvalidTagOrder(TagKey(input[r][i'[r]]), i'[r])
             /\ queries'[r] = queries[r]]_vars

\* A tag right after an end marker was rejected with InvalidTagOrder.
TagOrderWitness ==
    /\ i[1] >= 2
    /\ IsOtherTag(input[1][i[1]])
    /\ IsEndMarker(input[1][i[1] - 1])
    /\ DOMAIN queries[1] # {}
    /\ ret[1].kind = "Err"
    /\ ret[1].err = "InvalidTagOrder"

(***************************************************************************)
(* C5  Placeholder law.                                                    *)
(***************************************************************************)

\* The entry the validation loop took last.
LastVisited(r) == visited[r][Len(visited[r])]

\* The occurrences of a dollar sign followed by digits in text have, from
\* left to right, the numeric values 1, 2, ..., k.
Dense(text) ==
    LET occ == FindPlaceholders(text, 1)
    IN  \A j \in 1..Len(occ) : StripZeros(occ[j]) = ToDigits(j)

\* C5 as stated: the validation of an entry with text succeeds if and only
\* if its occurrences are 1, 2, ..., k; otherwise parse returns
\* UnmatchedPlaceholders for it.
PlaceholderLaw ==
    \A r \in Calls :
        visited[r] # <<>> /\ queries[r][LastVisited(r)].query # <<>> =>
            LET text == queries[r][LastVisited(r)].query
            IN  /\ ret[r].kind \in {"Running", "Ok"} <=> Dense(text)
                /\ ~Dense(text) =>
                      /\ ret[r].kind = "Err"
                      /\ ret[r].err = "UnmatchedPlaceholders"
                      /\ ret[r].name = LastVisited(r)

\* What the code does keep of C5: the law, but for a placeholder whose digits
\* str::parse::<usize> refuses, on which parse panics.
PlaceholderLawUnlessPanic ==
    \A r \in Calls :
        visited[r] # <<>> /\ queries[r][LastVisited(r)].query # <<>> =>
            LET text == queries[r][LastVisited(r)].query
            IN  /\ ret[r].kind \in {"Running", "Ok"} <=> Dense(text)
                /\ ~Dense(text) =>
                      \/ /\ ret[r].kind = "Err"
                         /\ ret[r].err = "UnmatchedPlaceholders"
                         /\ ret[r].name = LastVisited(r)
                      \/ /\ ret[r].kind = "Panic"
                         /\ ~Placeholders(text).ok

(***************************************************************************)
(* C6  Empty block law.                                                    *)
(***************************************************************************)

\* The name tags of inp that an end marker follows with no Fragment line (and
\* no other name tag, end marker or read error) in between.
EmptyBlocks(inp) ==
    {k \in 1..Len(inp) :
        /\ IsNameTag(inp[k])
        /\ \E e \in (k + 1)..Len(inp) :
              /\ IsEndMarker(inp[e])
              /\ \A j \in (k + 1)..(e - 1) : IsNoOp(inp[j]) \/ IsOtherTag(inp[j])}

\* The entry passes the validation loop.
ValidEntry(query) ==
    /\ query.query # <<>>
    /\ Dense(query.query)

\* C6 as stated, for the inputs that are read without an I/O error and start
\* with the empty block: a name tag followed by an end marker with no Fragment
\* line in between makes parse return EmptyQuery.
EmptyBlockAlways ==
    \A r \in Calls :
        (/\ Finished(r)
         /\ ret[r].kind # "Panic"
         /\ 1 \in EmptyBlocks(input[r])
         /\ \A k \in 1..Len(input[r]) : input[r][k].ok)
        => ret[r].kind = "Err" /\ ret[r].err = "EmptyQuery"

\* C6 amended: such an input never parses; parse returns EmptyQuery for that
\* name once the validation loop takes its entry, which it does if no line
\* makes the for loop return and every other entry is valid.
EmptyBlockLaw ==
    \A r \in Calls :
        Finished(r) =>
            \A k \in EmptyBlocks(input[r]) :
                LET n == TagValue(input[r][k])
                IN  /\ ret[r].kind # "Ok"
                    /\ (\E v \in 1..Len(visited[r]) : visited[r][v] = n)
                          => ret[r] = EmptyQuery(n)
                    /\ (/\ visited[r] # <<>>
                        /\ \A m \in DOMAIN queries[r] \ {n} :
                              ValidEntry(queries[r][m]))
                          => ret[r] = EmptyQuery(n)

\* parse returned EmptyQuery for an empty block after the validation loop had
\* passed another entry.
EmptyBlockWitness ==
    /\ EmptyBlocks(input[1]) # {}
    /\ Len(visited[1]) = 2
    /\ ret[1].kind = "Err"
    /\ ret[1].err = "EmptyQuery"

(***************************************************************************)
(* C7  A non-name tag reached while block n is open is stored in the tags  *)
(* of entry n and of no other entry, fragments or not before it: after     *)
(* every prefix of lines taken without error, and in the table returned on *)
(* success, the tags of an entry are exactly the non-name (key, value)     *)
(* pairs reached while it was open, and `name` is not among its keys.      *)
(***************************************************************************)

\* The non-name tag lines among the first k lines of inp that are reached
\* while block n is open.
TagLinesOf(inp, n, k) ==
    {j \in 1..k : IsOtherTag(inp[j]) /\ ActiveAt(inp, j) = n}

\* C7: the tags of every entry are the non-name pairs reached while it was
\* open, no more and no less.
TagsLaw ==
    \A r \in Calls :
        ret[r].kind \in {"Running", "Ok"} =>
            /\ \A n \in DOMAIN queries[r] :
                  LET T == TagLinesOf(input[r], n, i[r])
                      tags == queries[r][n].tags
                  IN  /\ DOMAIN tags = {TagKey(input[r][j]) : j \in T}
                      /\ \A j \in T :
                            tags[TagKey(input[r][j])] = TagValue(input[r][j])
                      /\ TAG_NAME \notin DOMAIN tags
            /\ ret[r].kind = "Ok" => ret[r].queries = queries[r]

\* parse succeeded on an entry that took a tag after a fragment.
TagsLawWitness ==
    /\ ret[1].kind = "Ok"
    /\ \E n \in DOMAIN ret[1].queries :
          \E j \in TagLinesOf(input[1], n, Len(input[1])) :
              /\ FragmentsOf(input[1], n, j) # <<>>
              /\ TagKey(input[1][j]) \in DOMAIN ret[1].queries[n].tags

(***************************************************************************)
(* C8  A non-name tag whose key the open block already has makes parse     *)
(* return DuplicateTag for that key and block, the first value staying; a  *)
(* key the open block does not have yet is accepted and stored, whatever   *)
(* other blocks hold.                                                      *)
(***************************************************************************)

\* The earlier lines of the block open at line k that are a tag with the key
\* of line k.
SameKeyBefore(inp, k) ==
    {j \in 1..(k - 1) :
        /\ IsOtherTag(inp[j])
        /\ TagKey(inp[j]) = TagKey(inp[k])
        /\ ActiveAt(inp, j) = ActiveAt(inp, k)}

\* C8: a repeated key of the open block returns DuplicateTag and keeps the
\* first value; a key new to the open block is stored.
DuplicateTagLaw ==
    [][\A r \in Calls :
          (/\ Turn(r)
           /\ IsOtherTag(input[r][i'[r]])
           /\ ActiveAt(input[r], i'[r]) # <<>>)
          => LET k == i'[r]
                 n == ActiveAt(input[r], k)
                 key == TagKey(input[r][k])
                 before == SameKeyBefore(input[r], k)
             IN  IF before # {}
                 THEN /\ ret'[r] = DuplicateTag(key, n)
                      /\ queries'[r] = queries[r]
                      /\ queries'[r][n].tags[key] =
                            TagValue(input[r][Smallest(before)])
                 ELSE /\ ret'[r].kind = "Running"
                      /\ queries'[r][n].tags[key] = TagValue(input[r][k])]_vars

\* parse returned DuplicateTag at a tag that repeats a key of its block with
\* another value.
DuplicateTagWitness ==
    /\ i[1] >= 3
    /\ IsOtherTag(input[1][i[1]])
    /\ SameKeyBefore(input[1], i[1]) # {}
    /\ ret[1].kind = "Err"
    /\ ret[1].err = "DuplicateTag"
    /\ ret[1].tag = TagKey(input[1][i[1]])
    /\ queries[1][ret[1].name].tags[ret[1].tag] # TagValue(input[1][i[1]])

(***************************************************************************)
(* C9  Fail-fast, no partial result: parse returns the error of the first  *)
(* line, in source order, that triggers one; it takes no line after it,    *)
(* never starts the validation, and returns no table.                      *)
(***************************************************************************)

\* The error line k of inp triggers when it is reached, "none" if it takes
\* its turn without one.
Triggers(inp, k) ==
    IF ~inp[k].ok THEN "IOError"
    ELSE IF IsFragment(inp[k]) /\ ActiveAt(inp, k) = <<>> THEN "MissingNameTag"
    ELSE IF IsOtherTag(inp[k]) /\ ActiveAt(inp, k) = <<>> THEN "InvalidTagOrder"
    ELSE IF /\ IsNameTag(inp[k])
               /\ \E j \in 1..(k - 1) :
                     IsNameTag(inp[j]) /\ TagValue(inp[j]) = TagValue(inp[k])
         THEN "DuplicateTag"
    ELSE IF IsOtherTag(inp[k]) /\ SameKeyBefore(inp, k) # {} THEN "DuplicateTag"
    ELSE "none"

StructuralErrors == {"DuplicateTag", "MissingNameTag", "InvalidTagOrder"}

\* C9: the first line that triggers an error is the last line taken, and its
\* error is what parse returns.
FailFast ==
    \A r \in Calls :
        /\ \A k \in 1..i[r] :
              Triggers(input[r], k) # "none" =>
                  /\ i[r] = k
                  /\ visited[r] = <<>>
                  /\ ret[r].kind = "Err"
                  /\ ret[r].err = Triggers(input[r], k)
        /\ (ret[r].kind = "Err" /\ ret[r].err \in StructuralErrors) =>
              Triggers(input[r], i[r]) = ret[r].err

\* parse returned a structural error with a table under way and lines left.
FailFastWitness ==
    /\ ret[1].kind = "Err"
    /\ ret[1].err \in StructuralErrors
    /\ DOMAIN queries[1] # {}
    /\ i[1] < Len(input[1])
    /\ \E k \in (i[1] + 1)..Len(input[1]) : Triggers(input[1], k) # "none"

(***************************************************************************)
(* C10  Determinism: two calls of parse on the same input that both        *)
(* succeed return the same keys, and under every key the same text and the *)
(* same tags, whatever the order in which each validation loop takes the   *)
(* entries.                                                                *)
(***************************************************************************)
Determinism ==
    (input[1] = input[2] /\ ret[1].kind = "Ok" /\ ret[2].kind = "Ok") =>
        /\ DOMAIN ret[1].queries = DOMAIN ret[2].queries
        /\ \A n \in DOMAIN ret[1].queries :
              /\ ret[1].queries[n].query = ret[2].queries[n].query
              /\ ret[1].queries[n].tags = ret[2].queries[n].tags

\* Both calls succeeded on two entries, one of them with a tag, having
\* validated them in opposite orders.
DeterminismWitness ==
    /\ input[1] = input[2]
    /\ ret[1].kind = "Ok"
    /\ ret[2].kind = "Ok"
    /\ Len(visited[1]) = 2
    /\ visited[1] # visited[2]
    /\ \E n \in DOMAIN ret[1].queries : DOMAIN ret[1].queries[n].tags # {}

(***************************************************************************)
(* C11  The end marker is optional.                                        *)
(***************************************************************************)

\* The lines of an input with and without its last end marker.
PoolEnd == {LineNameA, LineNameB, LineEnd, LineX, LineP2}

\* The longest input of SpecEnd, the appended end marker not counted.
MaxLinesEnd == 4

InitEnd ==
    \E a \in Inputs(PoolEnd, MaxLinesEnd) : Start(a, Append(a, LineEnd), TRUE)

\* parse on an input and parse on the same input with an end-marker line
\* appended, their steps interleaved.
SpecEnd == InitEnd /\ [][Next]_vars

\* inp ends while a block with at least one fragment is open.
EndsActive(inp) ==
    /\ ActiveAt(inp, Len(inp) + 1) # <<>>
    /\ FragmentsOf(inp, ActiveAt(inp, Len(inp) + 1), Len(inp)) # <<>>

\* No line of inp triggers an error when the for loop reaches it.
NoTrigger(inp) == \A k \in 1..Len(inp) : Triggers(inp, k) = "none"

\* The values of the name tags of inp.
NamesOf(inp) == {TagValue(inp[k]) : k \in {j \in 1..Len(inp) : IsNameTag(inp[j])}}

\* Every block of inp has text, and placeholders numbered 1, 2, ..., k.
AllBlocksValid(inp) ==
    \A n \in NamesOf(inp) :
        LET text == JoinSpace(FragmentsOf(inp, n, Len(inp)))
        IN  text # <<>> /\ Dense(text)

\* C11 as stated, for the inputs no line of which triggers an error: an input
\* that ends while a block with at least one fragment is open parses
\* successfully.
EndMarkerOptionalAlways ==
    (/\ Finished(1)
     /\ EndsActive(input[1])
     /\ NoTrigger(input[1]))
    => ret[1].kind = "Ok"

\* C11 amended: ending the input while a block with at least one fragment is
\* open is no error of its own.  parse succeeds on such an input exactly when
\* no line triggers an error and every block passes the validation; it
\* succeeds exactly when it does on the same input with an end-marker line
\* appended, with the same table; and an error of the for loop is the same
\* error on both.
EndMarkerOptional ==
    (/\ input[2] = Append(input[1], LineEnd)
     /\ EndsActive(input[1])
     /\ Finished(1))
    => /\ ret[1].kind = "Ok" <=>
             NoTrigger(input[1]) /\ AllBlocksValid(input[1])
       /\ Finished(2) =>
             /\ ret[1].kind = "Ok" <=> ret[2].kind = "Ok"
             /\ ret[1].kind = "Ok" => ret[1].queries = ret[2].queries
             /\ (ret[1].kind = "Err" /\ visited[1] = <<>>) => ret[2] = ret[1]

\* Both calls succeeded with a table of two entries, the input of the first
\* ending inside its second block.
EndMarkerOptionalWitness ==
    /\ input[2] = Append(input[1], LineEnd)
    /\ EndsActive(input[1])
    /\ ret[1].kind = "Ok"
    /\ ret[2].kind = "Ok"
    /\ Cardinality(DOMAIN ret[1].queries) = 2
    /\ name[1] # <<>>
    /\ name[2] = <<>>

(***************************************************************************)
(* C12  The error of a non-name tag line with no block open.               *)
(***************************************************************************)

\* The last line call r has taken is a non-name tag reached with no block open.
TookTagOutsideBlock(r) ==
    /\ i[r] >= 1
    /\ IsOtherTag(input[r][i[r]])
    /\ ActiveAt(input[r], i[r]) = <<>>

\* C12 as stated: a non-name tag line taken while no block is open makes
\* parse return MissingNameTag.
TagOutsideBlockMissingName ==
    \A r \in Calls :
        TookTagOutsideBlock(r) =>
            ret[r].kind = "Err" /\ ret[r].err = "MissingNameTag"

\* C12 amended: a non-name tag line taken while no block is open makes parse
\* return InvalidTagOrder; MissingNameTag is returned for a Fragment line
\* with no block open and for no other line.
TagOutsideBlockError ==
    \A r \in Calls :
        /\ TookTagOutsideBlock(r) =>
              /\ ret[r].kind = "Err"
              /\ ret[r].err = "InvalidTagOrder"
              /\ ret[r].tag = TagKey(input[r][i[r]])
              /\ ret[r].line = i[r]
        /\ (ret[r].kind = "Err" /\ ret[r].err = "MissingNameTag") =>
              /\ IsFragment(input[r][i[r]])
              /\ ActiveAt(input[r], i[r]) = <<>>

\* parse returned InvalidTagOrder for a tag on the first line of an input
\* that goes on with a name tag, as in test_invalid_tag_order.
TagOutsideBlockWitness ==
    /\ TookTagOutsideBlock(1)
    /\ i[1] = 1
    /\ Len(input[1]) >= 3
    /\ IsNameTag(input[1][2])
    /\ IsFragment(input[1][3])
    /\ ret[1].kind = "Err"
    /\ ret[1].err = "InvalidTagOrder"

(***************************************************************************)
(* C13  Whitespace between the double dash and the tag key is optional: a  *)
(* line "--name: x" is classified as Tag(name, x) and opens block x as     *)
(* "-- name: x" does, and "--name: a", fragment, "--name: b", fragment     *)
(* parses to a table of two entries.                                       *)
(***************************************************************************)

\* "--name: a"
LineNameANoSpace == Line(Dashes \o TAG_NAME \o <<":", " ", "a">>)

\* "--name: b"
LineNameBNoSpace == Line(Dashes \o TAG_NAME \o <<":", " ", "b">>)

\* "--t: 1"
LineTagTNoSpace == Line(Dashes \o <<"t", ":", " ", "1">>)

\* The lines of the doc example and of the macro's test, with an end marker.
PoolNoSpace ==
    {LineNameANoSpace, LineNameBNoSpace, LineTagTNoSpace, LineX, LineEnd}

\* The longest input of SpecNoSpace.
MaxLinesNoSpace == 4

\* The line with one space put after its leading double dash, if it has one
\* that no whitespace follows.
WithSpace(item) ==
    IF /\ item.ok
       /\ Len(item.s) >= 3
       /\ StartsWith(item.s, Dashes)
       /\ ~IsSpace(item.s[3])
    THEN Line(Dashes \o Sp \o SubSeq(item.s, 3, Len(item.s)))
    ELSE item

InitNoSpace ==
    \E a \in Inputs(PoolNoSpace, MaxLinesNoSpace) :
        Start(a, [k \in 1..Len(a) |-> WithSpace(a[k])], TRUE)

\* parse on an input whose tags have no space after the dashes, and parse on
\* the same input with that space, their steps interleaved.
SpecNoSpace == InitNoSpace /\ [][Next]_vars

\* The input of call 2 is that of call 1 with a space after the dashes.
SpacedPair ==
    /\ Len(input[2]) = Len(input[1])
    /\ \A k \in 1..Len(input[1]) : input[2][k] = WithSpace(input[1][k])

\* The doc example: "--name: a", fragment, "--name: b", fragment.
DocExample == <<LineNameANoSpace, LineX, LineNameBNoSpace, LineX>>

\* C13: the tag lines without the space are classified as the same tag, the
\* for loop is in the same state after as many lines of either input, both
\* calls return the same, and the doc example parses to two entries.
NoSpaceLaw ==
    SpacedPair =>
        /\ \A k \in 1..Len(input[1]) :
              /\ parse_line(input[1][k].s) = parse_line(input[2][k].s)
              /\ input[1][k] \in {LineNameANoSpace, LineNameBNoSpace} =>
                    /\ IsNameTag(input[1][k])
                    /\ TagValue(input[1][k]) = <<input[1][k].s[Len(input[1][k].s)]>>
        /\ i[1] = i[2] =>
              /\ name[1] = name[2]
              /\ queries[1] = queries[2]
        /\ (Finished(1) /\ Finished(2)) =>
              /\ ret[1].kind = ret[2].kind
              /\ ret[1].kind = "Ok" => ret[1].queries = ret[2].queries
              /\ (ret[1].kind = "Err" /\ visited[1] = <<>>) => ret[2] = ret[1]
        /\ (Finished(1) /\ input[1] = DocExample) =>
              /\ ret[1].kind = "Ok"
              /\ DOMAIN ret[1].queries = {<<"a">>, <<"b">>}
              /\ \A n \in DOMAIN ret[1].queries :
                    ret[1].queries[n] = [query |-> <<"x">>, tags |-> <<>>]

\* Both calls succeeded on the doc example.
NoSpaceWitness ==
    /\ SpacedPair
    /\ input[1] = DocExample
    /\ input[2] # input[1]
    /\ ret[1].kind = "Ok"
    /\ ret[2].kind = "Ok"
    /\ Cardinality(DOMAIN ret[1].queries) = 2

(***************************************************************************)
(* C14  Concurrent calls of parse on independent inputs do not interfere:  *)
(* with the line steps of two calls interleaved in any order, each call    *)
(* has after every step the active name and the table it has after as many *)
(* lines when it runs alone, and returns what it returns alone.            *)
(***************************************************************************)

\* The lines of two calls on inputs of their own.
PoolPair == {LineNameA, LineNameB, LineX, LineEnd}

\* The longest input of either call of SpecPair.
MaxLinesPair == 2

InitPair ==
    \E a \in Inputs(PoolPair, MaxLinesPair), b \in Inputs(PoolPair, MaxLinesPair) :
        Start(a, b, TRUE)

\* Two calls of parse, each on its own input, their steps interleaved.
SpecPair == InitPair /\ [][Next]_vars

\* The locals of a call that runs alone on inp, after the for loop has taken
\* k lines or returned before.
RECURSIVE AloneLoop(_, _)
AloneLoop(inp, k) ==
    IF k = 0 THEN [name |-> <<>>, queries |-> NoQueries, ret |-> Running]
    ELSE LET before == AloneLoop(inp, k - 1)
         IN  IF before.ret.kind # "Running" THEN before
             ELSE LoopBody(before.name, before.queries, k, inp[k])

\* What a call that runs alone on inp may return: the error of the for loop,
\* or the error of an entry that fails the validation, or the table.
AloneOutcomes(inp) ==
    LET end == AloneLoop(inp, Len(inp))
        bad == {n \in DOMAIN end.queries :
                    ValidateQuery(n, end.queries[n]).kind # "Running"}
    IN  IF end.ret.kind # "Running" THEN {end.ret}
        ELSE IF bad = {} THEN {Ok(end.queries)}
        ELSE {ValidateQuery(n, end.queries[n]) : n \in bad}

\* C14: whatever the interleaving, each call is where it is when run alone.
NoInterference ==
    \A r \in Calls :
        LET alone == AloneLoop(input[r], i[r])
        IN  /\ name[r] = alone.name
            /\ queries[r] = alone.queries
            /\ alone.ret.kind = "Err" => ret[r] = alone.ret
            /\ Finished(r) => ret[r] \in AloneOutcomes(input[r])

\* Call 2 has returned MissingNameTag for a stray fragment while call 1, on
\* another input, is in the middle of its lines with a block open.
NoInterferenceWitness ==
    /\ input[1] # input[2]
    /\ ret[1].kind = "Running"
    /\ 1 <= i[1]
    /\ i[1] < Len(input[1])
    /\ name[1] # <<>>
    /\ ret[2].kind = "Err"
    /\ ret[2].err = "MissingNameTag"
    /\ i[2] >= 2

(***************************************************************************)
(* C15  parse_file returns IOError when the path cannot be opened, without *)
(* running the parser and without a table; when the open succeeds, it      *)
(* returns what parse returns on the content of the file.                  *)
(***************************************************************************)

\* The lines of a file, one of them a line the reader fails on.
PoolFile == {LineNameA, LineEnd, LineX, LineP2, ReadError}

\* The longest file of SpecFile.
MaxLinesFile == 4

InitFile ==
    \E p \in {TestSql, MissingSql}, a \in Inputs(PoolFile, MaxLinesFile) :
        StartFile(p, IF p \in Existing THEN a ELSE <<>>)

\* A call of parse_file.
SpecFile == InitFile /\ [][NextFile]_vars

\* C15: a path that cannot be opened gives IOError with the for loop never
\* entered and the table never filled; a path that can gives, line by line
\* and in the end, what parse gives on the content.
ParseFileLaw ==
    \A r \in Calls :
        (path[r] # NoPath /\ ret[r].kind # "Opening") =>
            IF path[r] \notin Existing
            THEN /\ ret[r] = FileIOError(path[r])
                 /\ i[r] = 0
                 /\ name[r] = <<>>
                 /\ queries[r] = NoQueries
                 /\ visited[r] = <<>>
            ELSE LET alone == AloneLoop(input[r], i[r])
                 IN  /\ name[r] = alone.name
                     /\ queries[r] = alone.queries
                     /\ alone.ret.kind = "Err" => ret[r] = alone.ret
                     /\ Finished(r) => ret[r] \in AloneOutcomes(input[r])
                     /\ ret[r].kind = "Ok" => ret[r].queries = alone.queries

\* parse_file returned IOError, with the path, for the path that is missing.
ParseFileWitness ==
    /\ path[1] = MissingSql
    /\ ret[1].kind = "Err"
    /\ ret[1].err = "IOError"
    /\ ret[1].value = MissingSql
    /\ i[1] = 0

(***************************************************************************)
(* C16  In the derived try_from a field whose key the table lacks gets the *)
(* default value and is no error: try_from fails only on a key the table   *)
(* has and whose text does not convert, and succeeds otherwise.            *)
(***************************************************************************)

Simple == <<"s", "i", "m", "p", "l", "e">>

Simple2 == Simple \o <<"2">>

SimpleTwo == Simple \o <<"_", "t", "w", "o">>

Another == <<"a", "n", "o", "t", "h", "e", "r">>

\* The fields of the structs: those of the macro's test, simple_two also
\* with the attribute the macro declares and with none, and a field of a
\* type whose FromStr can fail.
FieldPool ==
    {Field(Simple, <<>>, "String"),
     Field(Simple2, <<>>, "String"),
     Field(SimpleTwo, <<>>, "String"),
     Field(SimpleTwo, <<Attr("key", Simple2)>>, "String"),
     Field(SimpleTwo, <<Attr("name", Simple2)>>, "String"),
     Field(Another, <<>>, "usize")}

\* The most fields of a struct.
MaxFields == 3

\* The structs: their fields have identifiers of their own.
Structs ==
    {fs \in UNION {[1..n -> FieldPool] : n \in 0..MaxFields} :
        \A a, b \in 1..Len(fs) : a # b => fs[a].ident # fs[b].ident}

\* The texts an entry of a table may have under a key.
TextsOf(key) ==
    IF key = Simple THEN {<<"x">>}
    ELSE IF key = Simple2 THEN {<<"y">>}
    ELSE IF key = SimpleTwo THEN {<<"z">>}
    ELSE {<<"7">>, <<"w">>}

\* The tables: any of the four keys, each with one of its texts.
Tables ==
    UNION {{t \in [S -> {[query |-> q, tags |-> <<>>] :
                            q \in {<<"x">>, <<"y">>, <<"z">>, <<"7">>, <<"w">>}}] :
               \A k \in S : t[k].query \in TextsOf(k)} :
           S \in SUBSET {Simple, Simple2, SimpleTwo, Another}}

InitScan == \E fs \in Structs, t \in Tables : StartScan(fs, t)

\* A call of the derived try_from.
SpecScan == InitScan /\ [][NextScan]_vars

\* The table has no entry under the key of field j when try_from looks it
\* up: it never had one, or an earlier field has removed it.
AbsentAt(j) ==
    LET map == GenerateMap(def)
    IN  \/ map[j].key \notin DOMAIN scan.arg
        \/ \E h \in 1..(j - 1) : map[h].key = map[j].key

\* The table has an entry under the key of field j whose text does not
\* convert to the type of the field.
FailsAt(j) ==
    LET map == GenerateMap(def)
    IN  /\ ~AbsentAt(j)
        /\ ~convert_query(map[j].ty, scan.arg[map[j].key].query).ok

\* try_from has set field j.
FieldSet(j) == j < scan.k \/ (j = scan.k /\ scan.ret.kind # "Err")

\* C16: a field whose key is absent is set to the default and try_from goes
\* on; an error is that of a key that is present; with none, Ok(Self).
MissingKeyLaw ==
    scan.ret.kind # "NotCalled" =>
        /\ \A j \in 1..scan.k :
              AbsentAt(j) =>
                  /\ FieldSet(j)
                  /\ scan.self[def[j].ident] = Default(def[j].ty)
        /\ scan.ret.kind = "Err" => FailsAt(scan.k)
        /\ scan.ret.kind = "Ok" =>
              /\ \A j \in 1..Len(def) : ~FailsAt(j)
              /\ DOMAIN scan.ret.self = {def[j].ident : j \in 1..Len(def)}
              /\ \A j \in 1..Len(def) :
                    AbsentAt(j) => scan.ret.self[def[j].ident] = Default(def[j].ty)

\* try_from returned Ok for the struct of three fields on a table of two
\* entries: one field has its text, one the default.
MissingKeyWitness ==
    /\ scan.ret.kind = "Ok"
    /\ Len(def) = 3
    /\ Cardinality(DOMAIN scan.arg) = 2
    /\ \E j \in 1..3 :
          /\ KeyOf(def[j]) \notin DOMAIN scan.arg
          /\ scan.ret.self[def[j].ident] = Default(def[j].ty)
    /\ \E j \in 1..3 :
          /\ KeyOf(def[j]) \in DOMAIN scan.arg
          /\ scan.ret.self[def[j].ident] = scan.arg[KeyOf(def[j])].query

(***************************************************************************)
(* C17  The rename attribute of a field.                                   *)
(***************************************************************************)

\* The key C17 binds a field under: the string of its rename attribute,
\* written `name` as in the macro's test or `key`, else its identifier.
RenamedKey(field) ==
    IF field.attrs = <<>> THEN field.ident
    ELSE field.attrs[Len(field.attrs)].value

\* The value of field j were it bound under keyOf(field): the converted text
\* of the entry the table was given with under that key, or the default if
\* there is none or an earlier field took it.
BoundUnder(keyOf(_), j) ==
    LET K == keyOf(def[j])
    IN  IF /\ K \in DOMAIN scan.arg
           /\ \A h \in 1..(j - 1) : keyOf(def[h]) # K
        THEN convert_query(def[j].ty, scan.arg[K].query).digits
        ELSE Default(def[j].ty)

\* C17 as stated: a field with a rename attribute is bound to the entry
\* under the attribute's string, a field without one by its identifier.
RenameLaw ==
    \A j \in 1..scan.k :
        FieldSet(j) => scan.self[def[j].ident] = BoundUnder(RenamedKey, j)

\* What the code keeps of C17: the law for the attribute `key`, the one the
\* derive declares; any other attribute leaves the identifier as the key.
KeyAttributeLaw ==
    \A j \in 1..scan.k :
        FieldSet(j) => scan.self[def[j].ident] = BoundUnder(KeyOf, j)

(***************************************************************************)
(* C18  When an entry fails the placeholder check, the mismatch reported   *)
(* is the first one: expected is the smallest position of the entry's      *)
(* occurrences whose value is not the position, found is that value.       *)
(***************************************************************************)

\* "$3"
LineP3 == Line(<<"$", "3">>)

\* The lines of the mismatches: occurrences out of order, with a gap, and
\* one that str::parse refuses.
PoolP == {LineNameA, LineNameB, LineP1, LineP2, LineP3, LineBig}

\* The longest input of SpecP.
MaxLinesP == 4

InitP == \E a \in Inputs(PoolP, MaxLinesP) : Start(a, <<>>, FALSE)

SpecP == InitP /\ [][Next]_vars

\* The positions of the occurrences of text whose value is not the position.
Mismatches(text) ==
    LET occ == FindPlaceholders(text, 1)
    IN  {j \in 1..Len(occ) : StripZeros(occ[j]) # ToDigits(j)}

\* C18: UnmatchedPlaceholders names the entry the validation loop took
\* last, the first position of a mismatch and the value found there.
FirstMismatchLaw ==
    \A r \in Calls :
        (ret[r].kind = "Err" /\ ret[r].err = "UnmatchedPlaceholders") =>
            LET text == queries[r][LastVisited(r)].query
                bad == Mismatches(text)
            IN  /\ ret[r].name = LastVisited(r)
                /\ bad # {}
                /\ ret[r].expected = Smallest(bad)
                /\ ret[r].found =
                      StripZeros(FindPlaceholders(text, 1)[Smallest(bad)])

\* The occurrences 1, 3, 2 were reported as expected 2, found 3.
FirstMismatchWitness ==
    /\ ret[1].kind = "Err"
    /\ ret[1].err = "UnmatchedPlaceholders"
    /\ FindPlaceholders(queries[1][ret[1].name].query, 1)
          = <<<<"1">>, <<"3">>, <<"2">>>>
    /\ ret[1].expected = 2
    /\ ret[1].found = <<"3">>

(***************************************************************************)
(* C19  The errors of the for loop come before those of the validation: if *)
(* a line of the input triggers an error, parse returns the error of the   *)
(* first such line, whatever the entries completed before it hold, and     *)
(* never takes an entry for validation; EmptyQuery and                     *)
(* UnmatchedPlaceholders are returned only when every line has been taken  *)
(* and none triggered an error.                                            *)
(***************************************************************************)

ValidationErrors == {"EmptyQuery", "UnmatchedPlaceholders"}

\* The lines of inp that trigger an error when the for loop reaches them.
TriggerLines(inp) == {k \in 1..Len(inp) : Triggers(inp, k) # "none"}

AggregationFirst ==
    \A r \in Calls :
        Finished(r) =>
            /\ TriggerLines(input[r]) # {} =>
                  LET k == Smallest(TriggerLines(input[r]))
                  IN  /\ ret[r].kind = "Err"
                      /\ ret[r].err = Triggers(input[r], k)
                      /\ ret[r].err \notin ValidationErrors
                      /\ i[r] = k
                      /\ visited[r] = <<>>
            /\ (ret[r].kind = "Err" /\ ret[r].err \in ValidationErrors) =>
                  /\ i[r] = Len(input[r])
                  /\ TriggerLines(input[r]) = {}
                  /\ visited[r] # <<>>

\* parse returned MissingNameTag for a fragment after the end marker of a
\* block that has no text.
AggregationFirstWitness ==
    /\ ret[1].kind = "Err"
    /\ ret[1].err = "MissingNameTag"
    /\ i[1] >= 3
    /\ IsEndMarker(input[1][i[1] - 1])
    /\ \E n \in DOMAIN queries[1] : queries[1][n].query = <<>>
    /\ visited[1] = <<>>

(***************************************************************************)
(* C20  The validation and the order of the table.                         *)
(***************************************************************************)

\* The lines of entries that pass the validation, fail it, and stop it.
PoolOrder == {LineNameA, LineNameB, LineP1, LineP2, LineBig}

\* The longest input of SpecOrder.
MaxLinesOrder == 4

InitOrder == \E a \in Inputs(PoolOrder, MaxLinesOrder) : Start(a, a, TRUE)

\* Two calls of parse on the same input, each validation loop taking the
\* entries in an order of its own.
SpecOrder == InitOrder /\ [][Next]_vars

\* The entries of the table of call r that do not pass the validation.
InvalidEntries(r) == {n \in DOMAIN queries[r] : ~ValidEntry(queries[r][n])}

\* Call r has returned after a for loop that took every line without error.
ValidationDone(r) ==
    /\ Finished(r)
    /\ i[r] = Len(input[r])
    /\ NoTrigger(input[r])

\* C20 as stated: after a successful aggregation parse succeeds if and only
\* if every entry has text and placeholders 1, 2, ..., k; otherwise it fails
\* with EmptyQuery or UnmatchedPlaceholders for an entry that is invalid; and
\* with exactly one invalid entry the error is the same in every order.
ValidationLaw ==
    /\ \A r \in Calls :
          ValidationDone(r) =>
              /\ ret[r].kind = "Ok" <=> InvalidEntries(r) = {}
              /\ ret[r].kind # "Ok" =>
                    /\ ret[r].kind = "Err"
                    /\ ret[r].err \in ValidationErrors
                    /\ ret[r].name \in InvalidEntries(r)
    /\ (/\ input[1] = input[2]
        /\ ValidationDone(1)
        /\ ValidationDone(2)
        /\ Cardinality(InvalidEntries(1)) = 1)
       => ret[1] = ret[2]

\* What the code keeps of C20: the law, but for an invalid entry with a
\* placeholder str::parse::<usize> refuses; when the validation loop takes
\* that entry parse panics, after another invalid entry or before it.
ValidationLawUnlessPanic ==
    /\ \A r \in Calls :
          ValidationDone(r) =>
              /\ ret[r].kind = "Ok" <=> InvalidEntries(r) = {}
              /\ ret[r].kind # "Ok" =>
                    \/ /\ ret[r].kind = "Err"
                       /\ ret[r].err \in ValidationErrors
                       /\ ret[r].name \in InvalidEntries(r)
                    \/ /\ ret[r].kind = "Panic"
                       /\ LastVisited(r) \in InvalidEntries(r)
                       /\ ~Placeholders(queries[r][LastVisited(r)].query).ok
    /\ (/\ input[1] = input[2]
        /\ ValidationDone(1)
        /\ ValidationDone(2)
        /\ Cardinality(InvalidEntries(1)) = 1)
       => ret[1] = ret[2]

(***************************************************************************)
(* C21  The end marker has priority in parse_line: a line whose trimmed    *)
(* form starts with "-- end" is an EndTag, also when the tag pattern or    *)
(* the comment pattern matches it, so it closes the open block and adds no *)
(* tag.                                                                    *)
(***************************************************************************)

\* "-- end: x"
LineEndColon == Line(EndPrefix \o <<":", " ", "x">>)

\* "-- endpoint: /v1"
LineEndpoint ==
    Line(EndPrefix \o <<"p", "o", "i", "n", "t", ":", " ", "/", "v", "1">>)

\* "-- end of section"
LineEndOf ==
    Line(EndPrefix \o <<" ", "o", "f", " ", "s", "e", "c", "t", "i", "o", "n">>)

\* "--"
LineDashes == Line(Dashes)

\* "-- k: " : a key and nothing after the colon
LineKeyOnly == Line(Dashes \o <<" ", "k", ":", " ">>)

\* "-- k: a:b"
LineTwoColons == Line(Dashes \o <<" ", "k", ":", " ", "a", ":", "b">>)

\* "-- a b: c" : the key is not one word
LineSpacedKey == Line(Dashes \o <<" ", "a", " ", "b", ":", " ", "c">>)

\* a tab, "--", a tab, "k_1 :  v "
LineTabTag ==
    Line(<<"\t">> \o Dashes \o <<"\t", "k", "_", "1", " ", ":", " ", " ", "v", " ">>)

\* "x -- y: z"
LineMidDashes == Line(<<"x", " ">> \o Dashes \o <<" ", "y", ":", " ", "z">>)

\* "- x: y"
LineOneDash == Line(<<"-", " ", "x", ":", " ", "y">>)

\* The lines parse_line has to tell apart.
PoolCls ==
    {LineNameA, LineEndColon, LineEndpoint, LineEndOf, LineEnd, LineBlank,
     LineDashes, LineKeyOnly, LineTwoColons, LineSpacedKey, LineTabTag,
     LineMidDashes, LineOneDash, LineComment, LineTagTNoSpace}

\* The longest input of SpecCls.
MaxLinesCls == 2

InitCls == \E a \in Inputs(PoolCls, MaxLinesCls) : Start(a, <<>>, FALSE)

SpecCls == InitCls /\ [][Next]_vars

\* The trimmed form of the line starts with "-- end".
StartsEnd(item) == item.ok /\ StartsWith(Trim(item.s), EndPrefix)

\* C21: the turn of the for loop on a line that starts with "-- end" takes it
\* as an EndTag: it clears the active name and changes no entry.
EndPriority ==
    [][\A r \in Calls :
          (Turn(r) /\ StartsEnd(input[r][i'[r]])) =>
              /\ parse_line(input[r][i'[r]].s) =
                    [line_type |-> "EndTag", tag |-> TAG_END, value |-> <<>>]
              /\ name'[r] = <<>>
              /\ queries'[r] = queries[r]
              /\ ret'[r].kind = "Running"]_vars

\* A line "-- end..." that the tag pattern matches has closed block a, whose
\* entry has no tag.
EndPriorityWitness ==
    /\ i[1] = 2
    /\ IsNameTag(input[1][1])
    /\ StartsEnd(input[1][2])
    /\ ReTag(Trim(input[1][2].s)).matched
    /\ name[1] = <<>>
    /\ DOMAIN queries[1] = {<<"a">>}
    /\ queries[1][<<"a">>].tags = <<>>

(***************************************************************************)
(* C22  parse_line is a total function that returns one variant per line,  *)
(* decided in the order Blank, EndTag, Tag, Comment, Query: a trimmed line *)
(* of dashes, a key of word characters, a colon and a remainder that is    *)
(* not empty is Tag(key, the remainder after the first colon, trimmed);    *)
(* any other line that starts with the dashes is a Comment; every other    *)
(* line that is not blank is a Query with the trimmed line.                *)
(***************************************************************************)

LineTypes == {"Blank", "EndTag", "Tag", "Comment", "Query"}

\* The positions of the colons of t.
Colons(t) == {p \in 1..Len(t) : t[p] = ":"}

\* What is between the dashes and the first colon of t, trimmed.
KeyPart(t) == Trim(SubSeq(t, 3, Smallest(Colons(t)) - 1))

\* What follows the first colon of t, trimmed.
Remainder(t) == Trim(SubSeq(t, Smallest(Colons(t)) + 1, Len(t)))

\* t is the dashes, a key of word characters, a colon and a remainder.
TagShape(t) ==
    /\ StartsWith(t, Dashes)
    /\ Colons(t) # {}
    /\ KeyPart(t) # <<>>
    /\ \A p \in 1..Len(KeyPart(t)) : IsWord(KeyPart(t)[p])
    /\ Remainder(t) # <<>>

\* The variant C22 gives a line, by the rules in their order.
Classify(raw) ==
    LET t == Trim(raw)
    IN  IF \A p \in 1..Len(raw) : IsSpace(raw[p])
        THEN [line_type |-> "Blank", tag |-> <<>>, value |-> <<>>]
        ELSE IF StartsWith(t, EndPrefix)
        THEN [line_type |-> "EndTag", tag |-> TAG_END, value |-> <<>>]
        ELSE IF TagShape(t)
        THEN [line_type |-> "Tag", tag |-> KeyPart(t), value |-> Remainder(t)]
        ELSE IF StartsWith(t, Dashes)
        THEN [line_type |-> "Comment", tag |-> <<>>, value |-> <<>>]
        ELSE [line_type |-> "Query", tag |-> <<>>, value |-> t]

\* C22: parse_line gives every line of the input the variant of the rules,
\* with the key and the value of the rules (the text of a comment aside).
ClassifierLaw ==
    \A r \in Calls :
        \A k \in 1..Len(input[r]) :
            input[r][k].ok =>
                LET pl == parse_line(input[r][k].s)
                    c == Classify(input[r][k].s)
                IN  /\ pl.line_type \in LineTypes
                    /\ pl.line_type = c.line_type
                    /\ pl.tag = c.tag
                    /\ pl.line_type # "Comment" => pl.value = c.value

\* The for loop has stored the tag of "-- k: a:b" with the value "a:b";
\* "-- k: " and "--" are comments.
ClassifierWitness ==
    /\ i[1] = 2
    /\ input[1] = <<LineNameA, LineTwoColons>>
    /\ ret[1].kind = "Running"
    /\ queries[1][<<"a">>].tags = (<<"k">> :> <<"a", ":", "b">>)
    /\ LineKind(LineKeyOnly) = "Comment"
    /\ LineKind(LineDashes) = "Comment"

(***************************************************************************)
(* C23. A name tag and an end marker leave every entry of the table as it  *)
(* was                                                                     *)
(***************************************************************************)

\* The entries of before are entries of after, text and tags as they were.
EntriesKept(before, after) ==
    /\ DOMAIN before \subseteq DOMAIN after
    /\ \A k \in DOMAIN before : after[k] = before[k]

\* C23: a turn of the for loop on an end marker changes nothing but the
\* active name, which it empties, whatever the active name was; a turn on a
\* name tag leaves every entry the table had as it was, and for a name the
\* table had not it adds one entry, empty, and makes the name the active one.
FrameOfNameAndEnd ==
    [][\A r \in Calls :
          Turn(r) =>
              LET item == input[r][i'[r]]
              IN  /\ IsEndMarker(item) =>
                        /\ queries'[r] = queries[r]
                        /\ name'[r] = <<>>
                        /\ ret'[r].kind = "Running"
                  /\ IsNameTag(item) =>
                        /\ EntriesKept(queries[r], queries'[r])
                        /\ name'[r] = TagValue(item)
                  /\ (IsNameTag(item) /\ TagValue(item) \notin DOMAIN queries[r]) =>
                        /\ DOMAIN queries'[r] =
                              DOMAIN queries[r] \cup {TagValue(item)}
                        /\ queries'[r][TagValue(item)] = EmptyQueryRecord
                        /\ ret'[r].kind = "Running"]_vars

\* The block `a` has its text, an end marker closed it, and the name tag of
\* `b` added its entry: the entry of `a` is as the block left it.
FrameOfNameAndEndWitness ==
    /\ i[1] = 4
    /\ input[1] = <<LineNameA, LineX, LineEnd, LineNameB>>
    /\ ret[1].kind = "Running"
    /\ name[1] = <<"b">>
    /\ queries[1] = (<<"a">> :> [query |-> <<"x">>, tags |-> <<>>])
                       @@ (<<"b">> :> EmptyQueryRecord)

(***************************************************************************)
(* C24. Blank and comment lines change nothing, and an input without them  *)
(* parses as the input with them                                           *)
(***************************************************************************)

\* The lines of the claim's cases: two blocks, a text that passes the
\* validation and one that does not, a comment, a blank line.
PoolStrip ==
    {LineNameA, LineNameB, LineX, LineP2, LineComment, LineBlank}

\* The longest input of SpecStrip.
MaxLinesStrip == 4

\* inp with its blank and comment lines deleted.
Stripped(inp) == SelectSeq(inp, LAMBDA item : ~IsNoOp(item))

InitStrip ==
    \E a \in Inputs(PoolStrip, MaxLinesStrip) : Start(a, Stripped(a), TRUE)

\* parse on an input and parse on the input without its blank and comment
\* lines, their steps interleaved.
SpecStrip == InitStrip /\ [][Next]_vars

\* What parse returned, the number of the line aside.
Unlined(out) == IF out.kind = "Err" THEN [out EXCEPT !.line = 0] ELSE out

\* What parse may return on inp, the numbers of the lines aside.
UnlinedOutcomes(inp) == {Unlined(out) : out \in AloneOutcomes(inp)}

\* A turn of the for loop on a blank or comment line leaves the active name
\* and the table as they were, and the loop goes on.
NoOpTurn ==
    \A r \in Calls :
        (Turn(r) /\ IsNoOp(input[r][i'[r]])) =>
            /\ name'[r] = name[r]
            /\ queries'[r] = queries[r]
            /\ ret'[r] = ret[r]

\* C24 as stated: both calls succeed with the same table, or both fail with
\* an error of the same kind.
NoOpLawSameKind ==
    (Finished(1) /\ Finished(2)) =>
        /\ ret[1].kind = ret[2].kind
        /\ ret[1].kind = "Ok" => ret[1].queries = ret[2].queries
        /\ ret[1].kind = "Err" => ret[1].err = ret[2].err

\* C24: blank and comment lines are no-ops in every state; the call on the
\* input without them succeeds when the other does, with the same table;
\* when the for loop returns an error both return it, the number of the line
\* aside; and when the validation fails both calls fail with one of the same
\* failures, each by the order its own table is iterated in.
NoOpLaw ==
    /\ [][NoOpTurn]_vars
    /\ [](/\ input[2] = Stripped(input[1])
          /\ (i[1] = 0 /\ i[2] = 0) =>
                UnlinedOutcomes(input[1]) = UnlinedOutcomes(input[2])
          /\ \A r \in Calls : Finished(r) => ret[r] \in AloneOutcomes(input[r])
          /\ (Finished(1) /\ Finished(2)) =>
                /\ ret[1].kind = "Ok" <=> ret[2].kind = "Ok"
                /\ ret[1].kind = "Ok" => ret[1].queries = ret[2].queries
                /\ (\/ ret[1].kind = "Err" /\ visited[1] = <<>>
                    \/ ret[2].kind = "Err" /\ visited[2] = <<>>) =>
                      Unlined(ret[1]) = Unlined(ret[2])
                /\ Cardinality(UnlinedOutcomes(input[1])) = 1 =>
                      Unlined(ret[1]) = Unlined(ret[2]))

\* Both calls returned the same table, one on a block with a blank line and
\* a comment inside, the other on the block without them.
NoOpLawWitness ==
    /\ input[1] = <<LineNameA, LineBlank, LineComment, LineX>>
    /\ input[2] = <<LineNameA, LineX>>
    /\ ret[1].kind = "Ok"
    /\ ret[2] = ret[1]
    /\ ret[1].queries = (<<"a">> :> [query |-> <<"x">>, tags |-> <<>>])

(***************************************************************************)
(* C25. The for loop only adds entries to the table and only appends to    *)
(* their text                                                              *)
(***************************************************************************)

\* The name-tag lines among the first k lines of inp.
NameTagLines(inp, k) == {j \in 1..k : IsNameTag(inp[j])}

\* s begins with p.
BeginsWith(s, p) == Len(p) <= Len(s) /\ SubSeq(s, 1, Len(p)) = p

\* While the for loop has returned no error the table has one entry for each
\* name-tag line taken, under the value of the line.
KeysAreNamesSeen ==
    \A r \in Calls :
        ret[r].kind = "Running" =>
            /\ DOMAIN queries[r] =
                  {TagValue(input[r][j]) : j \in NameTagLines(input[r], i[r])}
            /\ Cardinality(DOMAIN queries[r]) =
                  Cardinality(NameTagLines(input[r], i[r]))

\* A turn of the for loop without error removes no entry and leaves every
\* text the beginning of what it becomes; on a fragment or a tag other than
\* `name` the table keeps its keys and every entry but that of the active
\* name, whose text gets the fragment at its end or whose tags get the tag.
GrowOnly ==
    \A r \in Calls :
        (Turn(r) /\ ret'[r].kind = "Running") =>
            LET item == input[r][i'[r]]
            IN  /\ DOMAIN queries[r] \subseteq DOMAIN queries'[r]
                /\ \A n \in DOMAIN queries[r] :
                      BeginsWith(queries'[r][n].query, queries[r][n].query)
                /\ (IsFragment(item) \/ IsOtherTag(item)) =>
                      /\ DOMAIN queries'[r] = DOMAIN queries[r]
                      /\ name[r] \in DOMAIN queries[r]
                      /\ queries'[r][name[r]] # queries[r][name[r]]
                      /\ \A n \in DOMAIN queries[r] \ {name[r]} :
                            queries'[r][n] = queries[r][n]
                /\ IsFragment(item) =>
                      /\ queries'[r][name[r]].tags = queries[r][name[r]].tags
                      /\ Len(queries'[r][name[r]].query) >
                            Len(queries[r][name[r]].query)
                /\ IsOtherTag(item) =>
                      queries'[r][name[r]].query = queries[r][name[r]].query

\* C25: after every prefix of lines taken without error the keys of the
\* table are the values of the name-tag lines taken, one entry a line; no
\* turn removes an entry or changes a text but by appending to it; and a
\* fragment or a tag other than `name` changes the entry of the active name
\* and no other.
GrowOnlyLaw == [](KeysAreNamesSeen) /\ [][GrowOnly]_vars

\* The block `a` got its text, the name tag of `b` opened a second block, and
\* the tag `t` went to the entry of `b`: the entry of `a` is as it was.
GrowOnlyWitness ==
    /\ i[1] = 4
    /\ input[1] = <<LineNameA, LineX, LineNameB, LineTagT>>
    /\ ret[1].kind = "Running"
    /\ queries[1] = (<<"a">> :> [query |-> <<"x">>, tags |-> <<>>])
                       @@ (<<"b">> :> [query |-> <<>>,
                                       tags |-> (<<"t">> :> <<"1">>)])

(***************************************************************************)
(* C26. Every error parse returns says where: the number of the line, or   *)
(* the name of the query                                                   *)
(***************************************************************************)

\* The lines of the errors' cases, with a comment and a blank line to be
\* counted.
PoolCtx ==
    {LineNameA, LineNameB, LineTagT, LineX, LineP2, LineEnd, LineComment,
     LineBlank}

\* The longest input of SpecCtx.
MaxLinesCtx == 4

InitCtx == \E a \in Inputs(PoolCtx, MaxLinesCtx) : Start(a, <<>>, FALSE)

SpecCtx == InitCtx /\ [][Next]_vars

\* The first line of inp that triggers an error.
Offending(inp) == Smallest(TriggerLines(inp))

\* C26: MissingNameTag and InvalidTagOrder carry the number, from 1 and over
\* every line of the input, of the first line that triggers an error, which
\* is a line of that error; DuplicateTag carries the name the line repeats,
\* or the name of the block that is open and the key the line repeats;
\* EmptyQuery and UnmatchedPlaceholders carry the name of an entry without
\* text, or with text whose placeholders are not 1, 2, ..., k.
ContextLaw ==
    \A r \in Calls :
        ret[r].kind = "Err" =>
            /\ ret[r].err \in {"MissingNameTag", "InvalidTagOrder"} =>
                  /\ TriggerLines(input[r]) # {}
                  /\ ret[r].line = Offending(input[r])
                  /\ ret[r].line \in 1..Len(input[r])
                  /\ Triggers(input[r], ret[r].line) = ret[r].err
            /\ ret[r].err = "MissingNameTag" =>
                  ret[r].value = Trim(input[r][ret[r].line].s)
            /\ ret[r].err = "InvalidTagOrder" =>
                  ret[r].tag = TagKey(input[r][ret[r].line])
            /\ ret[r].err = "DuplicateTag" =>
                  /\ ret[r].name # <<>>
                  /\ ret[r].name \in DOMAIN queries[r]
                  /\ i[r] = Offending(input[r])
                  /\ ret[r].tag = <<>> =>
                        /\ IsNameTag(input[r][i[r]])
                        /\ ret[r].name = TagValue(input[r][i[r]])
                  /\ ret[r].tag # <<>> =>
                        /\ IsOtherTag(input[r][i[r]])
                        /\ ret[r].name = ActiveAt(input[r], i[r])
                        /\ ret[r].tag = TagKey(input[r][i[r]])
                        /\ ret[r].tag \in DOMAIN queries[r][ret[r].name].tags
            /\ ret[r].err \in ValidationErrors =>
                  /\ ret[r].name \in DOMAIN queries[r]
                  /\ ret[r].name = LastVisited(r)
            /\ ret[r].err = "EmptyQuery" =>
                  queries[r][ret[r].name].query = <<>>
            /\ ret[r].err = "UnmatchedPlaceholders" =>
                  /\ queries[r][ret[r].name].query # <<>>
                  /\ ~ValidEntry(queries[r][ret[r].name])

\* A fragment on line 3, after a blank line and a comment and with no block
\* open: MissingNameTag carries the 3.
ContextWitness ==
    /\ input[1] = <<LineBlank, LineComment, LineX>>
    /\ ret[1] = MissingNameTag(3, <<"x">>)

(***************************************************************************)
(* C27. The active name is empty or a key of the table, and the empty      *)
(* string is no key                                                        *)
(***************************************************************************)

\* "-- name:"
LineNameOnly == Line(Dashes \o <<" ">> \o TAG_NAME \o <<":">>)

\* "-- name: "
LineNameThenSpace == Line(Dashes \o <<" ">> \o TAG_NAME \o <<":", " ">>)

\* The lines of the claim's cases: name tags, a `name` key with no value, a
\* tag, a fragment and an end marker.
PoolKey ==
    {LineNameA, LineNameB, LineNameOnly, LineNameThenSpace, LineTagT, LineX,
     LineEnd}

\* The longest input of SpecKey.
MaxLinesKey == 4

InitKey == \E a \in Inputs(PoolKey, MaxLinesKey) : Start(a, <<>>, FALSE)

SpecKey == InitKey /\ [][Next]_vars

\* The active name is empty or a key; the empty string is no key.
NameIsKey ==
    \A r \in Calls :
        /\ name[r] = <<>> \/ name[r] \in DOMAIN queries[r]
        /\ <<>> \notin DOMAIN queries[r]

\* A turn on a fragment adds no entry; a turn on a tag other than `name`
\* with a block open finds the entry of the active name, and with none open
\* returns before it looks the entry up.
NoNewEntry ==
    \A r \in Calls :
        Turn(r) =>
            LET item == input[r][i'[r]]
            IN  /\ IsFragment(item) =>
                      /\ DOMAIN queries'[r] = DOMAIN queries[r]
                      /\ ret'[r].kind = "Running" <=> name[r] # <<>>
                /\ IsOtherTag(item) =>
                      /\ DOMAIN queries'[r] = DOMAIN queries[r]
                      /\ name[r] # <<>> => name[r] \in DOMAIN queries[r]
                      /\ name[r] = <<>> =>
                            /\ ret'[r].kind = "Err"
                            /\ ret'[r].err = "InvalidTagOrder"

\* C27: after every line the active name is empty or a key of the table and
\* the empty string is not a key; so the tag arm's get_mut(..).unwrap() finds
\* its entry and the fragment arm's or_insert inserts nothing.
KeyInvariant == [](NameIsKey) /\ [][NoNewEntry]_vars

\* After "-- name:", which is a comment, a name tag, a fragment and a tag,
\* the table has the one entry of the name tag; the fragment and the tag
\* went to it.
KeyInvariantWitness ==
    /\ i[1] = 4
    /\ input[1] = <<LineNameOnly, LineNameA, LineX, LineTagT>>
    /\ LineKind(LineNameOnly) = "Comment"
    /\ LineKind(LineNameThenSpace) = "Comment"
    /\ name[1] = <<"a">>
    /\ queries[1] = (<<"a">> :> [query |-> <<"x">>,
                                 tags |-> (<<"t">> :> <<"1">>)])

(***************************************************************************)
(* C28. Only the literal prefix "-- end" ends a block                      *)
(***************************************************************************)

\* "--end"
LineEndNoSpace == Line(Dashes \o TAG_END)

\* "--  end"
LineEndTwoSpaces == Line(Dashes \o <<" ", " ">> \o TAG_END)

\* "-- END"
LineEndUpper == Line(Dashes \o <<" ", "E", "N", "D">>)

\* The three lines that look like an end marker and are none.
NearEnds == {LineEndNoSpace, LineEndTwoSpaces, LineEndUpper}

\* A name tag, a fragment, the end marker and the lines that look like one.
PoolEndLit == {LineNameA, LineX, LineEnd} \cup NearEnds

\* The longest input of SpecEndLit.
MaxLinesEndLit == 4

InitEndLit ==
    \E a \in Inputs(PoolEndLit, MaxLinesEndLit) : Start(a, <<>>, FALSE)

SpecEndLit == InitEndLit /\ [][Next]_vars

\* The name of the block open when line k of inp is reached, by the text of
\* the lines: the value of the last name tag before line k, unless a line
\* whose trimmed text starts with "-- end" follows it.
OpenAt(inp, k) ==
    LET S == {j \in 1..(k - 1) : IsNameTag(inp[j]) \/ StartsEnd(inp[j])}
    IN  IF S = {} \/ StartsEnd(inp[Largest(S)]) THEN <<>>
        ELSE TagValue(inp[Largest(S)])

\* The lines that start with "-- end" once trimmed, and no other, are end
\* markers; the three lines of NearEnds are comments; and while the for loop
\* has returned no error the active name is that of the block the lines
\* taken leave open.
LiteralEnd ==
    /\ \A item \in NearEnds : LineKind(item) = "Comment"
    /\ \A r \in Calls :
          /\ \A k \in 1..Len(input[r]) :
                IsEndMarker(input[r][k]) <=> StartsEnd(input[r][k])
          /\ ret[r].kind = "Running" => name[r] = OpenAt(input[r], i[r] + 1)

\* A turn on one of the three lines leaves the block open and the table as it
\* is; a turn on a fragment with a block open, whichever of the three lines
\* came before it, appends the fragment to the text of the block.
BlockStaysOpen ==
    \A r \in Calls :
        Turn(r) =>
            LET item == input[r][i'[r]]
                n == OpenAt(input[r], i'[r])
            IN  /\ item \in NearEnds =>
                      /\ name'[r] = name[r]
                      /\ queries'[r] = queries[r]
                      /\ ret'[r].kind = "Running"
                /\ (IsFragment(item) /\ n # <<>>) =>
                      /\ ret'[r].kind = "Running"
                      /\ name'[r] = n
                      /\ queries'[r][n].query =
                            PushFragment(queries[r][n].query, Trim(item.s))

\* C28: only a line that starts with the literal "-- end" is an end marker;
\* "--end", "--  end" and "-- END" are comments, leave the block open, and a
\* fragment after them is appended to the block, not rejected.
LiteralEndLaw == [](LiteralEnd) /\ [][BlockStaysOpen]_vars

\* The fragment after "--end" and "-- END" went to the block `a`, which is
\* still open.
LiteralEndWitness ==
    /\ i[1] = 4
    /\ input[1] = <<LineNameA, LineEndNoSpace, LineEndUpper, LineX>>
    /\ ret[1].kind = "Running"
    /\ name[1] = <<"a">>
    /\ queries[1] = (<<"a">> :> [query |-> <<"x">>, tags |-> <<>>])

====
